---------------------------- MODULE Spec2Model ----------------------------
(***************************************************************************)
(* A model of pdf2icd: term normalization (utils.normalize_term), mention  *)
(* extraction (DiseaseNER.extract_mentions), the exact/fuzzy resolver      *)
(* (DiseaseMatcher), the mapping pipeline (workflow.map_diseases) and the  *)
(* text extraction (ocr, poppler, workflow.extract_all_pdf_text).          *)
(*                                                                         *)
(* A Python str is modelled as a sequence of one-character strings, so     *)
(* that the regular-expression steps of normalize_term are computed        *)
(* character by character.                                                 *)
(***************************************************************************)
EXTENDS Integers, Sequences, FiniteSets, TLC

VARIABLES
    nt_term,    \* normalize_term: the argument of the first call
    nt_ret,     \* normalize_term: the value returned by the first call
    nt_ret2,    \* normalize_term: the value returned when fed its own result
    nt_calls,   \* normalize_term: number of calls made so far
    em_raw,     \* extract_mentions: what the tagger does on the raw text
    em_norm,    \* extract_mentions: what the tagger does on the normalized text
    em_ret,     \* extract_mentions: the returned list of mentions
    em_err,     \* extract_mentions: TRUE when the call ended in an exception
    em_calls,   \* extract_mentions: number of tagger calls the call has made
    lru,        \* what functools.lru_cache holds for the two loaders (process-wide)
    reads,      \* how often each asset file has been read successfully
    inst,       \* the DiseaseMatcher objects: _keys and _fuzzy_cache of each
    searches,   \* per matcher and normalized term: the process.extract calls made
    returned,   \* per matcher: the (normalized term, result) pairs fuzzy_match returned
    call,       \* the last operation: its name, arguments and result
    md_limit,   \* map_diseases: the argument fuzzy_limit
    md_threshold, \* map_diseases: the argument fuzzy_threshold
    md_ret,     \* map_diseases: the returned list of rows
    md_err,     \* map_diseases: the call that raised, "none" when none did
    md_log,     \* map_diseases: the best_match calls made, in order
    md_calls,   \* map_diseases: number of calls made so far
    syn_in,     \* synonyms: a table entry, the case of its token and the context
    syn_out,    \* synonyms: normalize_term of the term with the token and with its synonym
    syn_calls,  \* synonyms: number of normalize_term calls made so far
    vm_term,    \* is_valid_mention: the argument
    vm_ret,     \* is_valid_mention: the returned bool
    vm_calls,   \* is_valid_mention: number of calls made so far
    ocr_pages,  \* extract_ocr_text: the argument pages
    ocr_lang,   \* extract_ocr_text: the argument languages
    ocr_run,    \* extract_ocr_text: what the ocrmypdf process does
    ocr_cmd,    \* extract_ocr_text: the command line handed to subprocess.run
    ocr_ret,    \* extract_ocr_text: the returned text
    ocr_exc,    \* extract_ocr_text: the exception that left the call, "none" when none did
    ocr_calls,  \* extract_ocr_text: number of calls made so far
    ld_log,     \* the loader calls and DiseaseMatcher constructions made, in order
    ap_pdf,     \* extract_all_pdf_text: what the pdftotext process does
    ap_img,     \* extract_all_pdf_text: what the pdfimages -list process does
    ap_dedup,   \* extract_all_pdf_text: the argument deduplicate
    ap_pc,      \* extract_all_pdf_text: the line the call has reached
    ap_steps,   \* extract_all_pdf_text: the external programs run so far, in order
    ap_text_pdf, \* extract_all_pdf_text: the local text_pdf
    ap_pages,   \* extract_all_pdf_text: the local image_pages
    ap_ret,     \* extract_all_pdf_text: the returned text
    ap_exc      \* extract_all_pdf_text: the exception that left the call, "none" when none did

normVars == <<nt_term, nt_ret, nt_ret2, nt_calls>>

nerVars == <<em_raw, em_norm, em_ret, em_err, em_calls>>

loaderVars == <<lru, reads>>

matcherVars == <<inst, searches, returned, call>>

mapVars == <<md_limit, md_threshold, md_ret, md_err, md_log, md_calls>>

synVars == <<syn_in, syn_out, syn_calls>>

vmVars == <<vm_term, vm_ret, vm_calls>>

ocrVars == <<ocr_pages, ocr_lang, ocr_run, ocr_cmd, ocr_ret, ocr_exc, ocr_calls>>

logVars == <<ld_log>>

textVars ==
    <<ap_pdf, ap_img, ap_dedup, ap_pc, ap_steps, ap_text_pdf, ap_pages, ap_ret, ap_exc>>

vars ==
    <<normVars, nerVars, loaderVars, matcherVars, mapVars, synVars, vmVars, ocrVars, logVars, textVars>>

\* What a result variable holds while no call has returned a value.
NoValue == <<"<none>">>

IdleSyn ==
    /\ syn_in = [token |-> <<>>, synonym |-> <<>>, left |-> <<>>, right |-> <<>>]
    /\ syn_out = [token |-> NoValue, synonym |-> NoValue]
    /\ syn_calls = 0

IdleValid == vm_term = <<>> /\ vm_ret = FALSE /\ vm_calls = 0

IdleLog == ld_log = <<>>

IdleText ==
    /\ ap_pdf = [kind |-> "none", text |-> <<>>] /\ ap_img = [kind |-> "none", text |-> <<>>]
    /\ ap_dedup = FALSE /\ ap_pc = "idle" /\ ap_steps = <<>> /\ ap_text_pdf = <<>>
    /\ ap_pages = <<>> /\ ap_ret = NoValue /\ ap_exc = "none"

IdleOCR ==
    /\ ocr_pages = [is_none |-> TRUE, list |-> <<>>] /\ ocr_run = [kind |-> "none", text |-> <<>>]
    /\ ocr_lang = <<>> /\ ocr_cmd = <<>> /\ ocr_ret = NoValue /\ ocr_exc = "none"
    /\ ocr_calls = 0

-----------------------------------------------------------------------------
(* Characters.                                                             *)

LowerLetters ==
    <<"a", "b", "c", "d", "e", "f", "g", "h", "i", "j", "k", "l", "m", "n", "o", "p", "q", "r", "s", "t", "u", "v", "w", "x", "y", "z">>

UpperLetters ==
    <<"A", "B", "C", "D", "E", "F", "G", "H", "I", "J", "K", "L", "M", "N", "O", "P", "Q", "R", "S", "T", "U", "V", "W", "X", "Y", "Z">>

Digits ==
    <<"0", "1", "2", "3", "4", "5", "6", "7", "8", "9">>

\* Every character of the model as <<character, code point, general category>>
\* (unicodedata.category): the 128 ASCII characters, every other character
\* written in a file of the repository (the texts of tests/test_utils.py among
\* them) and the characters its escapes name. A character that cannot be
\* written in a string here is named by its code point, as in "U+0000".
UnicodeData ==
    <<
      <<"U+0000", 0, <<"C", "c">>>>, <<"U+0001", 1, <<"C", "c">>>>, <<"U+0002", 2, <<"C", "c">>>>,
      <<"U+0003", 3, <<"C", "c">>>>, <<"U+0004", 4, <<"C", "c">>>>, <<"U+0005", 5, <<"C", "c">>>>,
      <<"U+0006", 6, <<"C", "c">>>>, <<"U+0007", 7, <<"C", "c">>>>, <<"U+0008", 8, <<"C", "c">>>>,
      <<"\t", 9, <<"C", "c">>>>, <<"\n", 10, <<"C", "c">>>>, <<"U+000B", 11, <<"C", "c">>>>,
      <<"\f", 12, <<"C", "c">>>>, <<"\r", 13, <<"C", "c">>>>, <<"U+000E", 14, <<"C", "c">>>>,
      <<"U+000F", 15, <<"C", "c">>>>, <<"U+0010", 16, <<"C", "c">>>>, <<"U+0011", 17, <<"C", "c">>>>,
      <<"U+0012", 18, <<"C", "c">>>>, <<"U+0013", 19, <<"C", "c">>>>, <<"U+0014", 20, <<"C", "c">>>>,
      <<"U+0015", 21, <<"C", "c">>>>, <<"U+0016", 22, <<"C", "c">>>>, <<"U+0017", 23, <<"C", "c">>>>,
      <<"U+0018", 24, <<"C", "c">>>>, <<"U+0019", 25, <<"C", "c">>>>, <<"U+001A", 26, <<"C", "c">>>>,
      <<"U+001B", 27, <<"C", "c">>>>, <<"U+001C", 28, <<"C", "c">>>>, <<"U+001D", 29, <<"C", "c">>>>,
      <<"U+001E", 30, <<"C", "c">>>>, <<"U+001F", 31, <<"C", "c">>>>, <<" ", 32, <<"Z", "s">>>>,
      <<"!", 33, <<"P", "o">>>>, <<"\"", 34, <<"P", "o">>>>, <<"#", 35, <<"P", "o">>>>,
      <<"$", 36, <<"S", "c">>>>, <<"%", 37, <<"P", "o">>>>, <<"&", 38, <<"P", "o">>>>,
      <<"'", 39, <<"P", "o">>>>, <<"(", 40, <<"P", "s">>>>, <<")", 41, <<"P", "e">>>>,
      <<"*", 42, <<"P", "o">>>>, <<"+", 43, <<"S", "m">>>>, <<",", 44, <<"P", "o">>>>,
      <<"-", 45, <<"P", "d">>>>, <<".", 46, <<"P", "o">>>>, <<"/", 47, <<"P", "o">>>>,
      <<"0", 48, <<"N", "d">>>>, <<"1", 49, <<"N", "d">>>>, <<"2", 50, <<"N", "d">>>>,
      <<"3", 51, <<"N", "d">>>>, <<"4", 52, <<"N", "d">>>>, <<"5", 53, <<"N", "d">>>>,
      <<"6", 54, <<"N", "d">>>>, <<"7", 55, <<"N", "d">>>>, <<"8", 56, <<"N", "d">>>>,
      <<"9", 57, <<"N", "d">>>>, <<":", 58, <<"P", "o">>>>, <<";", 59, <<"P", "o">>>>,
      <<"<", 60, <<"S", "m">>>>, <<"=", 61, <<"S", "m">>>>, <<">", 62, <<"S", "m">>>>,
      <<"?", 63, <<"P", "o">>>>, <<"@", 64, <<"P", "o">>>>, <<"A", 65, <<"L", "u">>>>,
      <<"B", 66, <<"L", "u">>>>, <<"C", 67, <<"L", "u">>>>, <<"D", 68, <<"L", "u">>>>,
      <<"E", 69, <<"L", "u">>>>, <<"F", 70, <<"L", "u">>>>, <<"G", 71, <<"L", "u">>>>,
      <<"H", 72, <<"L", "u">>>>, <<"I", 73, <<"L", "u">>>>, <<"J", 74, <<"L", "u">>>>,
      <<"K", 75, <<"L", "u">>>>, <<"L", 76, <<"L", "u">>>>, <<"M", 77, <<"L", "u">>>>,
      <<"N", 78, <<"L", "u">>>>, <<"O", 79, <<"L", "u">>>>, <<"P", 80, <<"L", "u">>>>,
      <<"Q", 81, <<"L", "u">>>>, <<"R", 82, <<"L", "u">>>>, <<"S", 83, <<"L", "u">>>>,
      <<"T", 84, <<"L", "u">>>>, <<"U", 85, <<"L", "u">>>>, <<"V", 86, <<"L", "u">>>>,
      <<"W", 87, <<"L", "u">>>>, <<"X", 88, <<"L", "u">>>>, <<"Y", 89, <<"L", "u">>>>,
      <<"Z", 90, <<"L", "u">>>>, <<"[", 91, <<"P", "s">>>>, <<"\\", 92, <<"P", "o">>>>,
      <<"]", 93, <<"P", "e">>>>, <<"^", 94, <<"S", "k">>>>, <<"_", 95, <<"P", "c">>>>,
      <<"U+0060", 96, <<"S", "k">>>>, <<"a", 97, <<"L", "l">>>>, <<"b", 98, <<"L", "l">>>>,
      <<"c", 99, <<"L", "l">>>>, <<"d", 100, <<"L", "l">>>>, <<"e", 101, <<"L", "l">>>>,
      <<"f", 102, <<"L", "l">>>>, <<"g", 103, <<"L", "l">>>>, <<"h", 104, <<"L", "l">>>>,
      <<"i", 105, <<"L", "l">>>>, <<"j", 106, <<"L", "l">>>>, <<"k", 107, <<"L", "l">>>>,
      <<"l", 108, <<"L", "l">>>>, <<"m", 109, <<"L", "l">>>>, <<"n", 110, <<"L", "l">>>>,
      <<"o", 111, <<"L", "l">>>>, <<"p", 112, <<"L", "l">>>>, <<"q", 113, <<"L", "l">>>>,
      <<"r", 114, <<"L", "l">>>>, <<"s", 115, <<"L", "l">>>>, <<"t", 116, <<"L", "l">>>>,
      <<"u", 117, <<"L", "l">>>>, <<"v", 118, <<"L", "l">>>>, <<"w", 119, <<"L", "l">>>>,
      <<"x", 120, <<"L", "l">>>>, <<"y", 121, <<"L", "l">>>>, <<"z", 122, <<"L", "l">>>>,
      <<"{", 123, <<"P", "s">>>>, <<"|", 124, <<"S", "m">>>>, <<"}", 125, <<"P", "e">>>>,
      <<"~", 126, <<"S", "m">>>>, <<"U+007F", 127, <<"C", "c">>>>, <<"U+00E9", 233, <<"L", "l">>>>,
      <<"U+03B1", 945, <<"L", "l">>>>, <<"U+03B2", 946, <<"L", "l">>>>, <<"U+03BC", 956, <<"L", "l">>>>,
      <<"U+200B", 8203, <<"C", "f">>>>, <<"U+2014", 8212, <<"P", "d">>>>, <<"U+2022", 8226, <<"P", "o">>>>,
      <<"U+2192", 8594, <<"S", "m">>>>, <<"U+2265", 8805, <<"S", "m">>>>, <<"U+2756", 10070, <<"S", "o">>>>,
      <<"U+FDD0", 64976, <<"C", "n">>>>, <<"U+FDEF", 65007, <<"C", "n">>>>,
      <<"U+FFFE", 65534, <<"C", "n">>>>, <<"U+FFFF", 65535, <<"C", "n">>>>, <<"U+1FFFE", 131070, <<"C", "n">>>>
    >>

\* The entry of a character in UnicodeData.
UnicodeEntry(c) == CHOOSE e \in {UnicodeData[i] : i \in 1..Len(UnicodeData)} : e[1] = c

\* ord(c)
ord(c) == UnicodeEntry(c)[2]

\* unicodedata.category(c)
category(c) == UnicodeEntry(c)[3]

\* Characters Python's str.isspace() / the regex class \s accept.
Whitespace == {" ", "\t", "\n", "\r", "\f", "U+000B", "U+001C", "U+001D", "U+001E", "U+001F"}

\* The characters at which str.splitlines() ends a line.
LineBoundaries == {"\n", "\r", "\f", "U+000B", "U+001C", "U+001D", "U+001E"}

Range(s) == {s[i] : i \in 1..Len(s)}

IndexOf(s, c) == CHOOSE i \in 1..Len(s) : s[i] = c

\* The characters str.isalnum() accepts: the letters and the digits, those
\* beyond ASCII included.
Alphanumerics ==
    Range(LowerLetters) \cup Range(UpperLetters) \cup Range(Digits)
        \cup {"U+00E9", "U+03B1", "U+03B2", "U+03BC"}

\* str.isalnum() of one character.
isalnum(c) == c \in Alphanumerics

\* The regex class \w: alphanumerics and the underscore.
IsWordChar(c) == isalnum(c) \/ c = "_"

\* The regex class \s.
IsSpace(c) == c \in Whitespace

\* str.lower() of one character: the letters of UnicodeData beyond ASCII are
\* lower-case letters, which str.lower() leaves as they are.
LowerChar(c) ==
    IF c \in Range(UpperLetters) THEN LowerLetters[IndexOf(UpperLetters, c)] ELSE c

-----------------------------------------------------------------------------
(* utils.normalize_term                                                    *)

\* term.lower()
lower(s) == [i \in 1..Len(s) |-> LowerChar(s[i])]

\* re.sub(r"[^\w\s.-]", " ", term)
SubPunctuation(s) ==
    [i \in 1..Len(s) |->
        IF IsWordChar(s[i]) \/ IsSpace(s[i]) \/ s[i] = "." \/ s[i] = "-"
        THEN s[i] ELSE " "]

\* re.sub(r"\s+", " ", term): every maximal run of whitespace becomes one space.
RECURSIVE CollapseFrom(_, _, _)
CollapseFrom(s, i, acc) ==
    IF i > Len(s) THEN acc
    ELSE IF IsSpace(s[i])
         THEN IF i > 1 /\ IsSpace(s[i - 1])
              THEN CollapseFrom(s, i + 1, acc)
              ELSE CollapseFrom(s, i + 1, Append(acc, " "))
         ELSE CollapseFrom(s, i + 1, Append(acc, s[i]))

CollapseWhitespace(s) == CollapseFrom(s, 1, <<>>)

\* str.strip()
RECURSIVE lstrip(_)
lstrip(s) == IF s # <<>> /\ IsSpace(Head(s)) THEN lstrip(Tail(s)) ELSE s

RECURSIVE rstrip(_)
rstrip(s) ==
    IF s # <<>> /\ IsSpace(s[Len(s)]) THEN rstrip(SubSeq(s, 1, Len(s) - 1)) ELSE s

strip(s) == rstrip(lstrip(s))

\* Whether the regex \bword\b matches s at position i: the word stands at i
\* and neither the character before nor the one after is a word character.
\* WordAt without the two word boundaries: word occurs at position i of s.
WordAt_anywhere(s, i, word) ==
    /\ i + Len(word) - 1 <= Len(s)
    /\ SubSeq(s, i, i + Len(word) - 1) = word

WordAt(s, i, word) ==
    /\ i + Len(word) - 1 <= Len(s)
    /\ s[i] = word[1]
    /\ SubSeq(s, i, i + Len(word) - 1) = word
    /\ (i = 1 \/ ~IsWordChar(s[i - 1]))
    /\ (i + Len(word) > Len(s) \/ ~IsWordChar(s[i + Len(word)]))

\* re.sub(rf"\b{word}\b", repl, term): leftmost non-overlapping matches.
RECURSIVE SubWordFrom(_, _, _, _, _)
SubWordFrom(s, i, word, repl, acc) ==
    IF i > Len(s) THEN acc
    ELSE IF WordAt(s, i, word)
         THEN SubWordFrom(s, i + Len(word), word, repl, acc \o repl)
         ELSE SubWordFrom(s, i + 1, word, repl, Append(acc, s[i]))

SubWord(s, word, repl) == SubWordFrom(s, 1, word, repl, <<>>)

abbreviations ==
    << << <<"a", "f", "i", "b">>,
          <<"a", "t", "r", "i", "a", "l", " ", "f", "i", "b", "r", "i", "l", "l", "a", "t", "i", "o", "n">> >>,
       << <<"c", "a">>,
          <<"c", "a", "n", "c", "e", "r">> >>,
       << <<"c", "a", "d">>,
          <<"c", "o", "r", "o", "n", "a", "r", "y", " ", "a", "r", "t", "e", "r", "y", " ", "d", "i", "s", "e", "a", "s", "e">> >>,
       << <<"c", "k", "d">>,
          <<"c", "h", "r", "o", "n", "i", "c", " ", "k", "i", "d", "n", "e", "y", " ", "d", "i", "s", "e", "a", "s", "e">> >>,
       << <<"c", "o", "p", "d">>,
          <<"c", "h", "r", "o", "n", "i", "c", " ", "o", "b", "s", "t", "r", "u", "c", "t", "i", "v", "e", " ", "p", "u", "l", "m", "o", "n", "a", "r", "y", " ", "d", "i", "s", "e", "a", "s", "e">> >>,
       << <<"d", "m">>,
          <<"d", "i", "a", "b", "e", "t", "e", "s">> >>,
       << <<"d", "v", "t">>,
          <<"d", "e", "e", "p", " ", "v", "e", "i", "n", " ", "t", "h", "r", "o", "m", "b", "o", "s", "i", "s">> >>,
       << <<"d", "z">>,
          <<"d", "i", "s", "e", "a", "s", "e">> >>,
       << <<"h", "f">>,
          <<"h", "e", "a", "r", "t", " ", "f", "a", "i", "l", "u", "r", "e">> >>,
       << <<"h", "t", "n">>,
          <<"h", "y", "p", "e", "r", "t", "e", "n", "s", "i", "o", "n">> >>,
       << <<"m", "i">>,
          <<"m", "y", "o", "c", "a", "r", "d", "i", "a", "l", " ", "i", "n", "f", "a", "r", "c", "t", "i", "o", "n">> >>,
       << <<"p", "e">>,
          <<"p", "u", "l", "m", "o", "n", "a", "r", "y", " ", "e", "m", "b", "o", "l", "i", "s", "m">> >>,
       << <<"t", "b">>,
          <<"t", "u", "b", "e", "r", "c", "u", "l", "o", "s", "i", "s">> >>,
       << <<"u", "t", "i">>,
          <<"u", "r", "i", "n", "a", "r", "y", " ", "t", "r", "a", "c", "t", " ", "i", "n", "f", "e", "c", "t", "i", "o", "n">> >> >>

plural_map ==
    << << <<"c", "a", "n", "c", "e", "r", "s">>,
          <<"c", "a", "n", "c", "e", "r">> >>,
       << <<"d", "i", "s", "e", "a", "s", "e", "s">>,
          <<"d", "i", "s", "e", "a", "s", "e">> >>,
       << <<"f", "a", "i", "l", "u", "r", "e", "s">>,
          <<"f", "a", "i", "l", "u", "r", "e">> >>,
       << <<"f", "i", "n", "d", "i", "n", "g", "s">>,
          <<"f", "i", "n", "d", "i", "n", "g">> >>,
       << <<"i", "n", "f", "a", "r", "c", "t", "i", "o", "n", "s">>,
          <<"i", "n", "f", "a", "r", "c", "t", "i", "o", "n">> >>,
       << <<"s", "y", "n", "d", "r", "o", "m", "e", "s">>,
          <<"s", "y", "n", "d", "r", "o", "m", "e">> >>,
       << <<"t", "u", "m", "o", "r", "s">>,
          <<"t", "u", "m", "o", "r">> >> >>

\* for key, value in table.items(): term = re.sub(rf"\b{key}\b", value, term)
RECURSIVE ApplyTable(_, _, _)
ApplyTable(s, table, k) ==
    IF k > Len(table) THEN s
    ELSE LET term == SubWord(s, table[k][1], table[k][2])
         IN  IF Len(term) = 0 THEN term ELSE ApplyTable(term, table, k + 1)

\* normalize_term with the ends trimmed before the punctuation is replaced.
normalize_term_strip_first(term) ==
    LET lowered  == lower(term)
        squeezed == CollapseWhitespace(SubPunctuation(strip(lowered)))
        expanded == ApplyTable(squeezed, abbreviations, 1)
    IN  ApplyTable(expanded, plural_map, 1)

normalize_term(term) ==
    LET lowered  == lower(term)
        cleaned  == SubPunctuation(lowered)
        squeezed == strip(CollapseWhitespace(cleaned))
        expanded == ApplyTable(squeezed, abbreviations, 1)
    IN  ApplyTable(expanded, plural_map, 1)

-----------------------------------------------------------------------------
(* The texts a mention or a query term is drawn from.                      *)

T_HTN     == <<"H", "T", "N">>
T_canser  == <<"c", "a", "n", "s", "e", "r">>
T_Canser  == <<"C", "a", "n", "s", "e", "r", "!">>
T_cancers == <<"c", "a", "n", "c", "e", "r", "s">>
T_xyz     == <<"x", "y", "z">>
T_dashes  == <<"-", "-", "-">>
T_cancer  == <<"c", "a", "n", "c", "e", "r">>
\* The term of tests/test_utils.py that starts with the Greek letter alpha.
T_alpha   == <<"U+03B1", "-", "t", "h", "a", "l", "a", "s", "s", "e", "m", "i", "a">>

Texts == {T_HTN, T_canser, T_Canser, T_cancers, T_xyz, T_dashes, T_cancer, T_alpha}

\* normalize_term(t) for every text of the model, computed once.
NormalizedTexts == [t \in Texts |-> normalize_term(t)]

\* A call normalize_term(term): the value is looked up for a text of the
\* model and computed for any other argument.
Normalized(term) ==
    IF term \in Texts THEN NormalizedTexts[term] ELSE normalize_term(term)

-----------------------------------------------------------------------------
(* utils.is_valid_mention                                                  *)

\* is_valid_mention asking only for a normalized form that is not empty.
is_valid_mention_nonempty(term) == Normalized(term) # <<>>

is_valid_mention(term) ==
    \E c \in Range(Normalized(term)) : isalnum(c)

-----------------------------------------------------------------------------
(* Inputs of the normalization check: strings spelled from a small         *)
(* alphabet of characters and of whole table tokens, every token of the    *)
(* two tables in three letter cases between surrounding texts, and the     *)
(* texts of the repository's tests.                                        *)

MaxSymbols == 3

\* Letters, a capital, a digit, whitespace, the period, the hyphen, the
\* underscore, other punctuation, a letter and a punctuation mark beyond
\* ASCII (U+03B1 is the Greek alpha, U+2022 the bullet), and table tokens.
NormAlphabet ==
    { <<"a">>, <<"d">>, <<"s">>, <<"C">>, <<"7">>, <<" ">>, <<"\t">>,
      <<".">>, <<"-">>, <<"_">>, <<"!">>, <<"U+03B1">>, <<"U+2022">>,
      <<"c", "a">>, <<"d", "z">>, <<"M", "I">>,
      <<"c", "a", "n", "c", "e", "r">>,
      <<"t", "u", "m", "o", "r", "s">> }

RECURSIVE Concat(_)
Concat(ss) == IF ss = <<>> THEN <<>> ELSE Head(ss) \o Concat(Tail(ss))

SymbolStrings(n) == UNION {[1..k -> NormAlphabet] : k \in 0..n}

\* str.upper() of one ASCII letter.
UpperChar(c) ==
    IF c \in Range(LowerLetters) THEN UpperLetters[IndexOf(LowerLetters, c)] ELSE c

\* The token of a table entry in one of three letter cases.
Cased(token, case) ==
    IF case = "lower" THEN token
    ELSE IF case = "upper" THEN [i \in 1..Len(token) |-> UpperChar(token[i])]
    ELSE [i \in 1..Len(token) |-> IF i = 1 THEN UpperChar(token[i]) ELSE token[i]]

Cases == {"lower", "upper", "capital"}

\* The entries of the two tables, abbreviations first.
SynEntries == abbreviations \o plural_map

\* What stands before the token: nothing, a word and a character that ends
\* it, or characters that make the token part of a longer word.
LeftContexts ==
    {<<>>, <<"x", " ">>, <<"x", "-">>, <<"x", ".">>, <<"x", "!">>, <<"x", "U+2022">>,
     <<"x">>, <<"x", "_">>, <<"7">>, <<"U+03B1">>}

\* What stands after the token, likewise.
RightContexts ==
    {<<>>, <<" ", "x">>, <<"-", "x">>, <<".", "x">>, <<"!", "x">>, <<"U+2022", "x">>,
     <<"x">>, <<"_", "x">>, <<"7">>, <<"U+03B1">>}

\* Every token of the two tables, in each letter case and between each pair
\* of surrounding texts.
TableTerms ==
    {left \o Cased(SynEntries[k][1], case) \o right :
        k \in 1..Len(SynEntries), case \in Cases,
        left \in LeftContexts, right \in RightContexts}

\* The arguments of test_is_valid_mention and of test_normalize_term.
TestTexts ==
    {<<"C", "a", "n", "c", "e", "r">>,
     <<"U+2022">>,
     <<"-", "-", "-">>,
     <<"C", "h", "r", "o", "n", "i", "c", " ", "k", "i", "d", "n", "e", "y", " ", "d", "i", "s", "e", "a", "s", "e">>,
     <<" ", " ", " ", " ">>,
     <<"U+2022", " ", "D", "i", "a", "b", "e", "t", "e", "s">>,
     <<>>,
     <<"C", "O", "V", "I", "D", "-", "1", "9">>,
     <<" ", " ", " ", ".", " ", " ">>,
     <<"M", "y", "o", "c", "a", "r", "d", "i", "a", "l", " ", "i", "n", "f", "a", "r", "c", "t", "i", "o", "n">>,
     <<"U+2756">>,
     <<"U+03B1", "-", "t", "h", "a", "l", "a", "s", "s", "e", "m", "i", "a">>,
     <<"U+2014", " ", "H", "T", "N", " ", "U+2014">>,
     <<"C", "O", "P", "D">>,
     <<"c", "o", "p", "d">>,
     <<"c", "a", "n", "c", "e", "r", "s">>,
     <<"F", "i", "n", "d", "i", "n", "g", "s">>,
     <<"H", "T", "N">>,
     <<"D", "i", "a", "b", "e", "t", "e", "s">>,
     <<"F", "o", "o", "-", "-", "-", "B", "a", "r">>,
     <<"m", "u", "l", "t", "i", "p", "l", "e", " ", " ", " ", " ", "s", "p", "a", "c", "e", "s">>}

NormInputs ==
    {Concat(ss) : ss \in SymbolStrings(MaxSymbols)} \cup TableTerms \cup TestTexts

-----------------------------------------------------------------------------
(* Ordering of str values and sorted()                                     *)

\* a < b for two str values: comparison by code point, a proper prefix first.
RECURSIVE StrLess(_, _)
StrLess(a, b) ==
    IF b = <<>> THEN FALSE
    ELSE IF a = <<>> THEN TRUE
    ELSE IF Head(a) = Head(b) THEN StrLess(Tail(a), Tail(b))
    ELSE ord(Head(a)) < ord(Head(b))

\* Insert with the comparison turned round: x goes before the smaller elements.
RECURSIVE Insert_descending(_, _)
Insert_descending(x, xs) ==
    IF xs = <<>> THEN <<x>>
    ELSE IF StrLess(Head(xs), x) THEN <<x>> \o xs
    ELSE <<Head(xs)>> \o Insert_descending(x, Tail(xs))

\* Insert x into the sorted list xs, after the elements not greater than x.
RECURSIVE Insert(_, _)
Insert(x, xs) ==
    IF xs = <<>> THEN <<x>>
    ELSE IF StrLess(x, Head(xs)) THEN <<x>> \o xs
    ELSE <<Head(xs)>> \o Insert(x, Tail(xs))

\* sorted(xs) for a list of str.
RECURSIVE sorted(_)
sorted(xs) ==
    IF xs = <<>> THEN <<>> ELSE Insert(xs[Len(xs)], sorted(SubSeq(xs, 1, Len(xs) - 1)))

-----------------------------------------------------------------------------
(* DiseaseNER.extract_mentions                                             *)
(* The spaCy tagger is an external model: a call of it either raises or    *)
(* returns a list of entity spans, each with its text and its label.       *)

\* Every text can be tagged as a disease; one of them also as a chemical.
Spans ==
    [text : Texts, label_ : {"DISEASE"}] \cup [text : {T_xyz}, label_ : {"CHEMICAL"}]

\* [ent.text for ent in doc.ents if ent.label_ == "DISEASE"]
RECURSIVE DiseaseTexts(_)
DiseaseTexts(ents) ==
    IF ents = <<>> THEN <<>>
    ELSE IF Head(ents).label_ = "DISEASE"
         THEN <<Head(ents).text>> \o DiseaseTexts(Tail(ents))
         ELSE DiseaseTexts(Tail(ents))

\* The deduplication loop remembering the mention texts, not their normalized forms.
RECURSIVE Deduplicate_by_text(_, _, _)
Deduplicate_by_text(mentions, seen, unique_mentions) ==
    IF mentions = <<>> THEN unique_mentions
    ELSE LET m == Head(mentions)
         IN  IF m \notin seen /\ is_valid_mention(m)
             THEN Deduplicate_by_text(Tail(mentions), seen \cup {m}, Append(unique_mentions, m))
             ELSE Deduplicate_by_text(Tail(mentions), seen, unique_mentions)

\* The loop keeping every valid mention, whatever has been seen.
RECURSIVE Deduplicate_keeping_all(_, _, _)
Deduplicate_keeping_all(mentions, seen, unique_mentions) ==
    IF mentions = <<>> THEN unique_mentions
    ELSE LET m == Head(mentions)
         IN  IF is_valid_mention(m)
             THEN Deduplicate_keeping_all(Tail(mentions), seen, Append(unique_mentions, m))
             ELSE Deduplicate_keeping_all(Tail(mentions), seen, unique_mentions)

\* The deduplication loop: seen holds the normalized forms kept so far.
RECURSIVE Deduplicate(_, _, _)
Deduplicate(mentions, seen, unique_mentions) ==
    IF mentions = <<>> THEN unique_mentions
    ELSE LET m      == Head(mentions)
             norm_m == Normalized(m)
         IN  IF norm_m \notin seen /\ is_valid_mention(m)
             THEN Deduplicate(Tail(mentions), seen \cup {norm_m}, Append(unique_mentions, m))
             ELSE Deduplicate(Tail(mentions), seen, unique_mentions)

\* extract_mentions returning unique_mentions as the loop left it.
extract_mentions_unsorted(ents_raw, ents_norm) ==
    Deduplicate(DiseaseTexts(ents_raw) \o DiseaseTexts(ents_norm), {}, <<>>)

\* extract_mentions when both tagger calls return: ents_raw and ents_norm
\* are doc_raw.ents and doc_norm.ents.
extract_mentions(ents_raw, ents_norm) ==
    LET mentions == DiseaseTexts(ents_raw) \o DiseaseTexts(ents_norm)
    IN  sorted(Deduplicate(mentions, {}, <<>>))

\* What one tagger call does: it raises, or it returns the spans ents.
Raised == [raises |-> TRUE, ents |-> <<>>]

Returned(ents) == [raises |-> FALSE, ents |-> ents]

\* The spans the tagger can return for the normalized text: the text of a
\* span is part of the text tagged, and normalize_term leaves no capital and
\* no punctuation other than ".", "-" and "_" in its result.
NormSpans ==
    {s \in Spans : \A c \in Range(s.text) :
        \/ isalnum(c) /\ LowerChar(c) = c
        \/ c \in {".", "-", "_", " "}}

SpanLists(spans, n) == UNION {[1..k -> spans] : k \in 0..n}

MaxSpans == 3

\* The outcomes of the two tagger calls of one extract_mentions call, with at
\* most n spans in all: the first call tags the text, the second its
\* normalized form; nothing follows a tagger call that raised.
TaggerRuns(n) ==
    {<<Raised, Returned(<<>>)>>}
        \cup {<<Returned(r), Raised>> : r \in SpanLists(Spans, n - 1)}
        \cup {<<Returned(p[1]), Returned(p[2])>> :
                p \in {q \in SpanLists(Spans, n) \X SpanLists(NormSpans, n) :
                         Len(q[1]) + Len(q[2]) <= n}}

InitNER ==
    /\ \E run \in TaggerRuns(MaxSpans) : em_raw = run[1] /\ em_norm = run[2]
    /\ em_ret = NoValue
    /\ em_err = FALSE
    /\ em_calls = 0

\* extract_mentions catching the exception of the second tagger call and
\* returning the mentions of the raw pass.
ExtractMentions_keeping_raw ==
    /\ em_calls = 0
    /\ IF em_raw.raises
       THEN /\ em_calls' = 1
            /\ em_err' = TRUE
            /\ em_ret' = NoValue
       ELSE /\ em_calls' = 2
            /\ em_err' = FALSE
            /\ em_ret' = extract_mentions(em_raw.ents, em_norm.ents)
    /\ UNCHANGED <<em_raw, em_norm>>

\* One call of extract_mentions, from its first line to its return or to the
\* exception that leaves it.
ExtractMentions ==
    /\ em_calls = 0
    /\ IF em_raw.raises
       THEN /\ em_calls' = 1
            /\ em_err' = TRUE
            /\ em_ret' = NoValue
       ELSE IF em_norm.raises
       THEN /\ em_calls' = 2
            /\ em_err' = TRUE
            /\ em_ret' = NoValue
       ELSE /\ em_calls' = 2
            /\ em_err' = FALSE
            /\ em_ret' = extract_mentions(em_raw.ents, em_norm.ents)
    /\ UNCHANGED <<em_raw, em_norm>>

-----------------------------------------------------------------------------
(* Specification of normalize_term applied once and then to its own result *)

InitNorm ==
    /\ nt_term \in NormInputs
    /\ nt_ret = NoValue
    /\ nt_ret2 = NoValue
    /\ nt_calls = 0

NormalizeTerm ==
    /\ nt_calls = 0
    /\ nt_ret' = normalize_term(nt_term)
    /\ nt_calls' = 1
    /\ UNCHANGED <<nt_term, nt_ret2>>

NormalizeAgain ==
    /\ nt_calls = 1
    /\ nt_ret2' = normalize_term(nt_ret)
    /\ nt_calls' = 2
    /\ UNCHANGED <<nt_term, nt_ret>>

NextNorm ==
    /\ NormalizeTerm \/ NormalizeAgain
    /\ UNCHANGED <<nerVars, loaderVars, matcherVars, mapVars, synVars, vmVars, ocrVars, logVars, textVars>>

-----------------------------------------------------------------------------
(* Specification of one extract_mentions call over every tagger outcome    *)

IdleNorm ==
    /\ nt_term = <<>> /\ nt_ret = NoValue /\ nt_ret2 = NoValue /\ nt_calls = 0

-----------------------------------------------------------------------------
(* Python dict values, as lists of <<key, value>> pairs in insertion order *)

HasKey(d, k) == \E i \in 1..Len(d) : d[i][1] = k

\* d[k]
Item(d, k) == d[CHOOSE i \in 1..Len(d) : d[i][1] = k][2]

\* d.get(k, default)
Get(d, k, default) == IF HasKey(d, k) THEN Item(d, k) ELSE default

\* list(d.keys())
KeyList(d) == [i \in 1..Len(d) |-> d[i][1]]

-----------------------------------------------------------------------------
(* The asset files term_to_cuis.json and cui_to_icd.json, as prepare_assets *)
(* writes them: normalized terms as keys, in sorted order, each with its   *)
(* sorted CUIs; only the CUIs that have ICD codes appear in cui_to_icd.    *)

K_cancer       == <<"c", "a", "n", "c", "e", "r">>
K_canker       == <<"c", "a", "n", "k", "e", "r">>
K_hypertension == <<"h", "y", "p", "e", "r", "t", "e", "n", "s", "i", "o", "n">>
K_thalassemia  == <<"t", "h", "a", "l", "a", "s", "s", "e", "m", "i", "a">>

TermToCuisAsset ==
    << <<K_cancer, << <<"C", "0", "0", "5">>, <<"C", "0", "0", "6">> >> >>,
       <<K_canker, << <<"C", "0", "0", "7">> >> >>,
       <<K_hypertension, << <<"C", "0", "0", "1">> >> >>,
       <<K_thalassemia, << <<"C", "0", "0", "9">> >> >> >>

CuiToIcdAsset ==
    << << <<"C", "0", "0", "1">>, << <<"I", "1", "0">> >> >>,
       << <<"C", "0", "0", "5">>, << <<"C", "8", "0", ".", "0">>, <<"C", "8", "0", ".", "1">> >> >>,
       << <<"C", "0", "0", "7">>, << <<"K", "1", "2", ".", "0">> >> >>,
       << <<"C", "0", "0", "9">>, << <<"D", "5", "6", ".", "9">> >> >> >>

-----------------------------------------------------------------------------
(* rapidfuzz: fuzz.ratio and process.extract                               *)

SetMax(S) == CHOOSE x \in S : \A y \in S : x >= y

SetMin(S) == CHOOSE x \in S : \A y \in S : x <= y

\* A Python float x >= 0 (an IEEE 754 binary64 number) is held exactly: whole
\* is its integer part and frac the bits of its fractional part, most
\* significant first and without a trailing zero bit.
\* A score is such a number; is_float tells a Python float (a similarity)
\* from a Python int (the 100 of an exact match).
IntScore(n) == [whole |-> n, frac |-> <<>>, is_float |-> FALSE]

Bit(bits, i) == IF i <= Len(bits) THEN bits[i] ELSE 0

Ones(bits) == {i \in 1..Len(bits) : bits[i] = 1}

\* 0.a > 0.b for two sequences of fraction bits
FracGreater(a, b) ==
    \E i \in 1..Len(a) :
        /\ Bit(a, i) > Bit(b, i)
        /\ \A j \in 1..(i - 1) : Bit(a, j) = Bit(b, j)

\* score >= threshold, for an int threshold
ScoreAtLeast(score, threshold) == score.whole >= threshold

\* a > b for two scores
ScoreGreater(a, b) ==
    \/ a.whole > b.whole
    \/ a.whole = b.whole /\ FracGreater(a.frac, b.frac)

RECURSIVE BitLen(_)
BitLen(n) == IF n = 0 THEN 0 ELSE 1 + BitLen(n \div 2)

\* The number of fraction bits of the binary64 numbers around whole + 0.bits:
\* 53 significant bits, counted from the leading one bit.
FractionBits(whole, bits) ==
    IF whole > 0 THEN 53 - BitLen(whole)
    ELSE IF Ones(bits) = {} THEN 53 + Len(bits)
    ELSE 52 + SetMin(Ones(bits))

\* The binary64 number nearest to whole + 0.bits (+ something below the last
\* bit when sticky), ties to the even mantissa: the rounding of every float
\* operation.
round_to_double(whole, bits, sticky) ==
    LET keep  == FractionBits(whole, bits)
        rest  == sticky \/ \E i \in (keep + 2)..Len(bits) : bits[i] = 1
        up    == Bit(bits, keep + 1) = 1 /\ (rest \/ Bit(bits, keep) = 1)
        kept  == SubSeq(bits, 1, IF keep < Len(bits) THEN keep ELSE Len(bits))
        zeros == {i \in 1..Len(kept) : kept[i] = 0}
    IN  IF ~up
        THEN [whole |-> whole,
              frac  |-> IF Ones(kept) = {} THEN <<>> ELSE SubSeq(kept, 1, SetMax(Ones(kept)))]
        ELSE IF zeros = {} THEN [whole |-> whole + 1, frac |-> <<>>]
        ELSE [whole |-> whole, frac |-> SubSeq(kept, 1, SetMax(zeros) - 1) \o <<1>>]

\* The number with these bits, and the k bits of a number v < 2^k.
RECURSIVE BitsValue(_)
BitsValue(bits) ==
    IF bits = <<>> THEN 0
    ELSE 2 * BitsValue(SubSeq(bits, 1, Len(bits) - 1)) + bits[Len(bits)]

ValueBits(v, k) == [j \in 1..k |-> (v \div 2^(k - j)) % 2] \o <<>>

\* The first 16 * n bits of rem / b by long division, 16 bits at a time, and
\* whether a rest is left (b < 2^15).
RECURSIVE DivBits(_, _, _, _)
DivBits(rem, b, n, bits) ==
    IF n = 0 THEN [bits |-> bits, sticky |-> rem # 0]
    ELSE CHOOSE r \in {DivBits(s[1], b, n - 1, s[2]) :
                          s \in {<<(65536 * rem) % b,
                                   bits \o ValueBits((65536 * rem) \div b, 16)>>}} : TRUE

\* a / b for two ints a >= 0, 0 < b < 2^15: the float nearest to the quotient.
truediv(a, b) ==
    CHOOSE x \in {round_to_double(a \div b, q.bits, q.sticky) :
                     q \in {DivBits(a % b, b, 5, <<>>)}} : TRUE

\* n * 0.bits + carry * 2^-Len(bits) for an int 0 <= n < 2^15, 16 bits at a
\* time from the last bit on: the integer part and as many fraction bits as
\* before, here in front of the bits acc done so far.
RECURSIVE MulBits(_, _, _, _)
MulBits(bits, n, carry, acc) ==
    IF bits = <<>> THEN [whole |-> carry, frac |-> acc]
    ELSE LET k == IF Len(bits) < 16 THEN Len(bits) ELSE 16
         IN  CHOOSE r \in {MulBits(front, n, v \div 2^k, ValueBits(v % 2^k, k) \o a) :
                              front \in {SubSeq(bits, 1, Len(bits) - k)},
                              v \in {n * BitsValue(SubSeq(bits, Len(bits) - k + 1, Len(bits))) + carry},
                              a \in {acc}} : TRUE

\* x * n for a float x and an int n
float_mul(x, n) ==
    CHOOSE y \in {round_to_double(n * x.whole + p.whole, p.frac, FALSE) :
                     p \in {MulBits(x.frac, n, 0, <<>>)}} : TRUE

\* 1.0 - x for a float 0 <= x <= 1
float_rsub(x) ==
    IF x.whole >= 1 THEN [whole |-> 0, frac |-> <<>>]
    ELSE IF x.frac = <<>> THEN [whole |-> 1, frac |-> <<>>]
    ELSE round_to_double(0, [i \in 1..Len(x.frac) |->
                                IF i = Len(x.frac) THEN 1 ELSE 1 - x.frac[i]] \o <<>>, FALSE)

\* One row of the longest-common-subsequence table: prev is the row of the
\* prefix before character ch; entry j + 1 is the value for b's first j
\* characters, the best of leaving ch out and of pairing it with an equal b[k].
LcsRow(prev, ch, b) ==
    [j \in 1..(Len(b) + 1) |->
        SetMax({prev[j]} \cup {prev[k] + 1 : k \in {k \in 1..(j - 1) : b[k] = ch}})] \o <<>>

RECURSIVE LcsFrom(_, _, _, _)
LcsFrom(a, b, i, prev) ==
    IF i > Len(a) THEN prev[Len(b) + 1]
    ELSE LcsFrom(a, b, i + 1, LcsRow(prev, a[i], b))

\* Length of the longest common subsequence of a and b.
LCS(a, b) == LcsFrom(a, b, 1, [j \in 1..(Len(b) + 1) |-> 0])

\* fuzz.ratio(a, b): the normalized Indel similarity in percent. The distance
\* is len(a) + len(b) - 2 * LCS; norm_dist = dist / (len(a) + len(b)), and 0 for
\* two empty strings; norm_sim = 1.0 - norm_dist; the result is norm_sim * 100,
\* each step in float arithmetic.
ratio(a, b) ==
    LET lensum == Len(a) + Len(b)
    IN  CHOOSE score \in {[whole |-> x.whole, frac |-> x.frac, is_float |-> TRUE] :
                             x \in {float_mul(float_rsub(norm_dist), 100) :
                                       norm_dist \in {IF lensum = 0 THEN [whole |-> 0, frac |-> <<>>]
                                                      ELSE truediv(lensum - 2 * LCS(a, b), lensum)}}} : TRUE

\* ratio(q, k) for every normalized text q and every dictionary key k of the
\* model, computed once.
Similarity ==
    [q \in {NormalizedTexts[t] : t \in Texts},
     k \in {TermToCuisAsset[i][1] : i \in 1..Len(TermToCuisAsset)} |-> ratio(q, k)]

\* A call fuzz.ratio(a, b): looked up for a pair of the model, computed otherwise.
Ratio(a, b) ==
    IF <<a, b>> \in DOMAIN Similarity THEN Similarity[a, b] ELSE ratio(a, b)

\* The best of the choices at the positions in rest: the highest score, and
\* among equal scores the earliest choice.
BestOf(scores, rest) ==
    CHOOSE i \in rest :
        \A j \in rest \ {i} :
            \/ ScoreGreater(scores[i], scores[j])
            \/ (~ScoreGreater(scores[j], scores[i]) /\ i < j)

RECURSIVE TakeBest(_, _, _, _, _)
TakeBest(choices, scores, rest, n, acc) ==
    IF n = 0 \/ rest = {} THEN acc
    ELSE LET i == BestOf(scores, rest)
         IN  TakeBest(choices, scores, rest \ {i}, n - 1,
                      Append(acc, <<choices[i], scores[i], i - 1>>))

\* process.extract without the limit: all choices, best first.
extract_all(query, choices, limit) ==
    LET scores == [i \in 1..Len(choices) |-> Ratio(query, choices[i])] \o <<>>
    IN  TakeBest(choices, scores, 1..Len(choices), Len(choices), <<>>)

\* process.extract(query, choices, scorer=fuzz.ratio, limit=limit): the limit
\* best (choice, score, index) triples, best first.
extract(query, choices, limit) ==
    LET scores == [i \in 1..Len(choices) |-> Ratio(query, choices[i])] \o <<>>
    IN  TakeBest(choices, scores, 1..Len(choices), limit, <<>>)

-----------------------------------------------------------------------------
(* DiseaseMatcher                                                          *)
(* self is [term_to_cuis, cui_to_icd, keys, fuzzy_cache]; the cache is a   *)
(* function from the normalized terms it holds to their result lists.      *)

EmptyCache == [k \in {} |-> <<>>]

CacheWith(cache, norm, results) ==
    [k \in DOMAIN cache \cup {norm} |-> IF k = norm THEN results ELSE cache[k]]

\* exact_match looking the term up as it was given.
exact_match_unnormalized(self, term) ==
    LET cuis == Get(self.term_to_cuis, term, <<>>)
    IN  [i \in 1..Len(cuis) |->
            [matched |-> term, cui |-> cuis[i],
             icd_codes |-> Get(self.cui_to_icd, cuis[i], <<>>)]]

exact_match(self, term) ==
    LET norm == Normalized(term)
        cuis == Get(self.term_to_cuis, norm, <<>>)
    IN  [i \in 1..Len(cuis) |->
            [matched |-> norm, cui |-> cuis[i],
             icd_codes |-> Get(self.cui_to_icd, cuis[i], <<>>)]]

\* The records of one (matched, score, index) triple of process.extract.
MatchRecords(self, match, threshold) ==
    IF ScoreAtLeast(match[2], threshold)
    THEN LET cuis == Item(self.term_to_cuis, match[1])
         IN  [i \in 1..Len(cuis) |->
                 [matched |-> match[1], score |-> match[2], cui |-> cuis[i],
                  icd_codes |-> Get(self.cui_to_icd, cuis[i], <<>>)]]
    ELSE <<>>

RECURSIVE FuzzyResults(_, _, _)
FuzzyResults(self, matches, threshold) ==
    IF matches = <<>> THEN <<>>
    ELSE MatchRecords(self, Head(matches), threshold)
             \o FuzzyResults(self, Tail(matches), threshold)

\* fuzzy_match searching without a look at the cache.
fuzzy_match_always_searching(self, term, limit, threshold) ==
    LET norm    == Normalized(term)
        results == FuzzyResults(self, extract(norm, self.keys, limit), threshold)
    IN  [ret |-> results, fuzzy_cache |-> CacheWith(self.fuzzy_cache, norm, results),
         searched |-> TRUE, fuzzy |-> TRUE,
         term_to_cuis |-> self.term_to_cuis, cui_to_icd |-> self.cui_to_icd]

\* fuzzy_match: the returned list, the cache after the call, whether
\* process.extract was called, and the dictionaries of self after the call
\* (the only assignment of the method is self._fuzzy_cache[norm] = results).
fuzzy_match(self, term, limit, threshold) ==
    LET norm == Normalized(term)
    IN  IF norm \in DOMAIN self.fuzzy_cache
        THEN [ret |-> self.fuzzy_cache[norm], fuzzy_cache |-> self.fuzzy_cache,
              searched |-> FALSE, fuzzy |-> TRUE,
              term_to_cuis |-> self.term_to_cuis, cui_to_icd |-> self.cui_to_icd]
        ELSE LET results == FuzzyResults(self, extract(norm, self.keys, limit), threshold)
             IN  [ret |-> results, fuzzy_cache |-> CacheWith(self.fuzzy_cache, norm, results),
                  searched |-> TRUE, fuzzy |-> TRUE,
                  term_to_cuis |-> self.term_to_cuis, cui_to_icd |-> self.cui_to_icd]

\* entry["score"] = 100
WithScore(entry, score) ==
    [f \in DOMAIN entry \cup {"score"} |-> IF f = "score" THEN score ELSE entry[f]]

\* The loop assigning the score to the lists that cui_to_icd holds for the
\* CUIs of exact, where it holds one, instead of to the entries.
score_entries_of_store(self, exact) ==
    [ret |-> [i \in 1..Len(exact) |-> WithScore(exact[i], IntScore(100))],
     term_to_cuis |-> self.term_to_cuis,
     cui_to_icd |->
        [k \in 1..Len(self.cui_to_icd) |->
            IF \E i \in 1..Len(exact) : exact[i].cui = self.cui_to_icd[k][1]
            THEN <<self.cui_to_icd[k][1], Append(self.cui_to_icd[k][2], <<"1", "0", "0">>)>>
            ELSE self.cui_to_icd[k]]]

\* for entry in exact: entry["score"] = 100. Every entry is a dict that the
\* comprehension of exact_match created; its "icd_codes" is the list that
\* cui_to_icd holds (or a new empty list). The assignment sets a key of the
\* entry and of no other object, so the dictionaries of self are as before.
score_entries(self, exact) ==
    [ret |-> [i \in 1..Len(exact) |-> WithScore(exact[i], IntScore(100))],
     term_to_cuis |-> self.term_to_cuis, cui_to_icd |-> self.cui_to_icd]

\* best_match trying the fuzzy match first and the exact match when it is empty.
best_match_fuzzy_first(self, term, limit, threshold) ==
    LET exact == exact_match(self, term)
        fuzzy == fuzzy_match(self, term, limit, threshold)
    IN  IF fuzzy.ret = <<>> /\ exact # <<>>
        THEN [ret |-> [i \in 1..Len(exact) |-> WithScore(exact[i], IntScore(100))],
              fuzzy_cache |-> fuzzy.fuzzy_cache, searched |-> fuzzy.searched,
              fuzzy |-> TRUE,
              term_to_cuis |-> self.term_to_cuis, cui_to_icd |-> self.cui_to_icd]
        ELSE fuzzy

\* best_match writing the score 100 into the fuzzy records as well.
best_match_all_100(self, term, limit, threshold) ==
    LET exact == exact_match(self, term)
        fuzzy == fuzzy_match(self, term, limit, threshold)
    IN  IF exact # <<>>
        THEN [ret |-> [i \in 1..Len(exact) |-> WithScore(exact[i], IntScore(100))],
              fuzzy_cache |-> self.fuzzy_cache, searched |-> FALSE, fuzzy |-> FALSE,
              term_to_cuis |-> self.term_to_cuis, cui_to_icd |-> self.cui_to_icd]
        ELSE [fuzzy EXCEPT !.ret = [i \in 1..Len(fuzzy.ret) |->
                                        WithScore(fuzzy.ret[i], IntScore(100))]]

\* best_match: as fuzzy_match, and whether fuzzy_match was called.
best_match(self, term, limit, threshold) ==
    LET exact == exact_match(self, term)
    IN  IF exact # <<>>
        THEN LET scored == score_entries(self, exact)
             IN  [ret |-> scored.ret,
                  fuzzy_cache |-> self.fuzzy_cache, searched |-> FALSE, fuzzy |-> FALSE,
                  term_to_cuis |-> scored.term_to_cuis, cui_to_icd |-> scored.cui_to_icd]
        ELSE fuzzy_match(self, term, limit, threshold)

-----------------------------------------------------------------------------
(* utils.load_term_to_cuis and utils.load_cui_to_icd under lru_cache       *)

NotLoaded == [loaded |-> FALSE, value |-> <<>>]

Loaded(value) == [loaded |-> TRUE, value |-> value]

Asset(name) == IF name = "term_to_cuis" THEN TermToCuisAsset ELSE CuiToIcdAsset

\* load without lru_cache: every call reads the asset.
load_uncached(c, name, ok) ==
    IF ok
    THEN [lru |-> [c.lru EXCEPT ![name] = Loaded(Asset(name))],
          reads |-> [c.reads EXCEPT ![name] = @ + 1],
          raised |-> FALSE, value |-> Asset(name)]
    ELSE [lru |-> c.lru, reads |-> c.reads, raised |-> TRUE, value |-> <<>>]

\* One call of a loader with memo cache and read counts c: the asset is read
\* only when lru_cache holds no value, and only a value that was returned is
\* kept; ok tells whether the file can be opened and parsed.
load(c, name, ok) ==
    IF c.lru[name].loaded
    THEN [lru |-> c.lru, reads |-> c.reads, raised |-> FALSE, value |-> c.lru[name].value]
    ELSE IF ok
    THEN [lru |-> [c.lru EXCEPT ![name] = Loaded(Asset(name))],
          reads |-> [c.reads EXCEPT ![name] = @ + 1],
          raised |-> FALSE, value |-> Asset(name)]
    ELSE [lru |-> c.lru, reads |-> c.reads, raised |-> TRUE, value |-> <<>>]

\* __init__ going on with an empty dictionary where a loader raised.
matcher_init_partial(c, okTerms, okCodes) ==
    LET first  == load(c, "term_to_cuis", okTerms)
        second == load(first, "cui_to_icd", okCodes)
    IN  [lru |-> second.lru, reads |-> second.reads, raised |-> FALSE,
         keys |-> KeyList(first.value), fuzzy_cache |-> EmptyCache]

\* DiseaseMatcher.__init__: load_term_to_cuis(), then load_cui_to_icd(); an
\* exception of either leaves no object.
matcher_init(c, okTerms, okCodes) ==
    LET first  == load(c, "term_to_cuis", okTerms)
        second == load(first, "cui_to_icd", okCodes)
    IN  IF first.raised
        THEN [lru |-> first.lru, reads |-> first.reads, raised |-> TRUE,
              keys |-> <<>>, fuzzy_cache |-> EmptyCache]
        ELSE [lru |-> second.lru, reads |-> second.reads, raised |-> second.raised,
              keys |-> IF second.raised THEN <<>> ELSE KeyList(first.value),
              fuzzy_cache |-> EmptyCache]

-----------------------------------------------------------------------------
(* workflow.map_diseases                                                   *)

\* The elements of the set S as a list, in one of the orders a set iterates.
RECURSIVE ListOf(_)
ListOf(S) ==
    IF S = {} THEN <<>>
    ELSE LET x == CHOOSE y \in S : TRUE IN <<x>> \o ListOf(S \ {x})

\* sorted(set(xs)) with the greatest element first.
sorted_set_descending(xs) ==
    LET up == sorted(ListOf(Range(xs)))
    IN  [i \in 1..Len(up) |-> up[Len(up) + 1 - i]]

\* sorted(set(xs)) for a list of str
sorted_set(xs) == sorted(ListOf(Range(xs)))

\* The decimal digits of a natural number.
RECURSIVE DigitsOf(_)
DigitsOf(n) ==
    IF n < 10 THEN <<Digits[n + 1]>> ELSE DigitsOf(n \div 10) \o <<Digits[(n % 10) + 1]>>

\* The digits after the point of repr(x), as numbers, for a fraction that is
\* not zero: the shortest digit string that reads back as x and, of these, the
\* one nearest to x. r is what is left of x below the digits so far; lo and hi
\* are half the distance to the float below and above x; all three are scaled
\* by ten for every digit. A string ends where the rest r (digits as they are)
\* or 1 - r (last digit one up) is within the margin, the margin included when
\* the mantissa of x is even.
RECURSIVE ShortestDigits(_, _, _, _, _)
ShortestDigits(r, lo, hi, even, digits) ==
    CHOOSE out \in
        {LET d     == r10.whole
             rest  == r10.frac
             last  == SetMax(Ones(rest))
             comp  == [i \in 1..Len(rest) |->
                          IF i < last THEN 1 - rest[i] ELSE IF i = last THEN 1 ELSE 0] \o <<>>
             low   == \/ lo10.whole >= 1
                      \/ FracGreater(lo10.frac, rest)
                      \/ even /\ lo10.frac = rest
             high  == \/ hi10.whole >= 1
                      \/ FracGreater(hi10.frac, comp)
                      \/ even /\ hi10.frac = comp
             down  == Append(digits, d)
             nines == {i \in 1..Len(down) : down[i] # 9}
             up    == IF nines = {} THEN [carry |-> 1, digits |-> <<>>]
                      ELSE [carry  |-> 0,
                            digits |-> SubSeq(down, 1, SetMax(nines) - 1)
                                           \o <<down[SetMax(nines)] + 1>>]
         IN  IF Ones(rest) = {} THEN [carry |-> 0, digits |-> down]
             ELSE IF low /\ ~high THEN [carry |-> 0, digits |-> down]
             ELSE IF high /\ ~low THEN up
             ELSE IF low /\ high
                  THEN IF rest[1] = 0 THEN [carry |-> 0, digits |-> down]
                       ELSE IF Ones(rest) = {1} /\ d % 2 = 0 THEN [carry |-> 0, digits |-> down]
                       ELSE up
             ELSE ShortestDigits(rest, [whole |-> 10 * lo.whole + lo10.whole, frac |-> lo10.frac],
                                 [whole |-> 10 * hi.whole + hi10.whole, frac |-> hi10.frac],
                                 even, down) :
         r10  \in {MulBits(r, 10, 0, <<>>)},
         lo10 \in {MulBits(lo.frac, 10, 0, <<>>)},
         hi10 \in {MulBits(hi.frac, 10, 0, <<>>)}} : TRUE

\* repr(x) of a float x that is 0 or in 0.0001 <= x < 10^16, where Python
\* writes no exponent: the integer part, the point and the shortest digits
\* that read back as x ("0" for an integral x).
float_repr(x) ==
    IF x.frac = <<>> THEN DigitsOf(x.whole) \o <<".", "0">>
    ELSE LET places == FractionBits(x.whole, x.frac)
             half   == [i \in 1..(places + 2) |-> IF i = places + 1 THEN 1 ELSE 0] \o <<>>
             \* the float below a power of two is half as far away
             fourth == [i \in 1..(places + 2) |-> IF i = places + 2 THEN 1 ELSE 0] \o <<>>
             power  == x.whole = 0 /\ Ones(x.frac) = {Len(x.frac)}
         IN  CHOOSE text \in
                 {DigitsOf(x.whole + out.carry) \o <<".">>
                      \o (IF out.digits = <<>> THEN <<"0">>
                          ELSE [i \in 1..Len(out.digits) |-> Digits[out.digits[i] + 1]] \o <<>>) :
                  out \in {ShortestDigits([i \in 1..(places + 2) |-> Bit(x.frac, i)] \o <<>>,
                                          [whole |-> 0, frac |-> IF power THEN fourth ELSE half],
                                          [whole |-> 0, frac |-> half],
                                          Bit(x.frac, places) = 0, <<>>)}} : TRUE

\* repr of every similarity of the model, computed once.
ScoreTexts ==
    [score \in {Similarity[p] : p \in DOMAIN Similarity} |->
        float_repr([whole |-> score.whole, frac |-> score.frac])]

\* str(score): the digits of an int, repr of a float.
str_score(score) ==
    IF ~score.is_float THEN DigitsOf(score.whole)
    ELSE IF score \in DOMAIN ScoreTexts THEN ScoreTexts[score]
    ELSE float_repr([whole |-> score.whole, frac |-> score.frac])

\* ",".join(codes)
RECURSIVE join(_)
join(codes) ==
    IF codes = <<>> THEN <<>>
    ELSE IF Len(codes) = 1 THEN codes[1]
    ELSE codes[1] \o <<",">> \o join(Tail(codes))

\* The rows of one mention, without the row of a mention that matched nothing.
rows_of_matches_only(mention, match_rows) ==
    [i \in 1..Len(match_rows) |->
        [mention |-> mention, matched |-> match_rows[i].matched,
         score |-> str_score(match_rows[i].score), cui |-> match_rows[i].cui,
         icd_codes |-> join(match_rows[i].icd_codes)]]

\* rows_of with nothing but the mention in the row of a mention without match.
rows_of_sparse(mention, match_rows) ==
    IF match_rows # <<>>
    THEN rows_of_matches_only(mention, match_rows)
    ELSE <<[mention |-> mention]>>

\* The rows one pass of the loop appends for a mention and its match_rows.
rows_of(mention, match_rows) ==
    IF match_rows # <<>>
    THEN [i \in 1..Len(match_rows) |->
            [mention |-> mention, matched |-> match_rows[i].matched,
             score |-> str_score(match_rows[i].score), cui |-> match_rows[i].cui,
             icd_codes |-> join(match_rows[i].icd_codes)]]
    ELSE <<[mention |-> mention, matched |-> <<>>, score |-> <<>>, cui |-> <<>>,
            icd_codes |-> <<>>]>>

\* The loop over the mentions with the matcher self: the rows appended, the
\* best_match calls made, each call seeing the cache the calls before left,
\* and the dictionaries of self after the loop; r is the outcome of the
\* best_match call of one pass.
RECURSIVE map_rows(_, _, _, _, _, _)
map_rows(self, mentions, limit, threshold, rows, log) ==
    IF mentions = <<>>
    THEN [rows |-> rows, log |-> log,
          term_to_cuis |-> self.term_to_cuis, cui_to_icd |-> self.cui_to_icd]
    ELSE LET mention  == Head(mentions)
             outcomes == {best_match(self, mention, limit, threshold)}
         IN  CHOOSE out \in
                 {map_rows([self EXCEPT !.fuzzy_cache = r.fuzzy_cache,
                                        !.term_to_cuis = r.term_to_cuis,
                                        !.cui_to_icd = r.cui_to_icd], Tail(mentions),
                           limit, threshold, rows \o rows_of(mention, r.ret),
                           Append(log, [term |-> mention, ret |-> r.ret,
                                        searched |-> r.searched, fuzzy |-> r.fuzzy])) :
                    r \in outcomes} : TRUE

IdleMap ==
    /\ md_limit = 0 /\ md_threshold = 0 /\ md_ret = NoValue /\ md_err = "none"
    /\ md_log = <<>> /\ md_calls = 0

-----------------------------------------------------------------------------
(* ocr.extract_ocr_text                                                    *)
(* subprocess.run(cmd, check=True, ...) is an external process: it returns *)
(* after exit status 0 with the sidecar file written, or it raises         *)
(* CalledProcessError (another exit status), TimeoutExpired, or            *)
(* FileNotFoundError (no ocrmypdf on the PATH).                            *)

\* text.splitlines(): a line ends at a line boundary, "\r\n" counting as one
RECURSIVE SplitLinesFrom(_, _, _, _)
SplitLinesFrom(text, i, line, lines) ==
    IF i > Len(text) THEN (IF line = <<>> THEN lines ELSE Append(lines, line))
    ELSE IF text[i] = "\r" /\ i < Len(text) /\ text[i + 1] = "\n"
         THEN SplitLinesFrom(text, i + 2, <<>>, Append(lines, line))
    ELSE IF text[i] \in LineBoundaries
         THEN SplitLinesFrom(text, i + 1, <<>>, Append(lines, line))
    ELSE SplitLinesFrom(text, i + 1, Append(line, text[i]), lines)

splitlines(text) == SplitLinesFrom(text, 1, <<>>, <<>>)

\* line.split(): the maximal runs of characters that are not whitespace
RECURSIVE SplitFieldsFrom(_, _, _, _)
SplitFieldsFrom(line, i, field, fields) ==
    IF i > Len(line) THEN (IF field = <<>> THEN fields ELSE Append(fields, field))
    ELSE IF IsSpace(line[i])
         THEN SplitFieldsFrom(line, i + 1, <<>>,
                              IF field = <<>> THEN fields ELSE Append(fields, field))
         ELSE SplitFieldsFrom(line, i + 1, Append(field, line[i]), fields)

split(line) == SplitFieldsFrom(line, 1, <<>>, <<>>)

\* sep.join(parts)
RECURSIVE join_with(_, _)
join_with(sep, parts) ==
    IF parts = <<>> THEN <<>>
    ELSE IF Len(parts) = 1 THEN parts[1]
    ELSE parts[1] \o sep \o join_with(sep, Tail(parts))

\* utils.compress_line_whitespace
compress_line_whitespace(text) ==
    LET lines == splitlines(text)
    IN  join_with(<<"\n">>, [i \in 1..Len(lines) |-> join_with(<<" ">>, split(lines[i]))])

\* Values of the languages argument ("eng" is its default).
L_eng == <<"e", "n", "g">>

L_deu == <<"d", "e", "u">>

\* The exception that leaves extract_ocr_text for each outcome of subprocess.run.
ocr_exception(kind) ==
    IF kind = "failed" \/ kind = "timeout" THEN "RuntimeError"
    ELSE IF kind = "missing" THEN "FileNotFoundError"
    ELSE "none"

\* page_str and cmd
ocr_command(pages, languages) ==
    LET page_str == join_with(<<",">>, [i \in 1..Len(pages) |-> DigitsOf(pages[i])])
    IN  <<<<"o", "c", "r", "m", "y", "p", "d", "f">>,
          <<"-", "l">>, languages,
          <<"-", "-", "f", "o", "r", "c", "e", "-", "o", "c", "r">>,
          <<"-", "r">>, <<"-", "d">>, <<"-", "c">>,
          <<"-", "-", "o", "u", "t", "p", "u", "t", "-", "t", "y", "p", "e">>,
          <<"n", "o", "n", "e">>,
          <<"-", "-", "s", "i", "d", "e", "c", "a", "r">>,
          <<"<", "t", "m", "p", "d", "i", "r", ">", "/", "o", "u", "t", "p", "u", "t", ".", "t", "x", "t">>>>
            \o (IF page_str # <<>>
                THEN <<<<"-", "-", "p", "a", "g", "e", "s">>, page_str>>
                ELSE <<>>)
            \o <<<<"i", "n", "p", "u", "t", ".", "p", "d", "f">>,
                 <<"-">>>>

-----------------------------------------------------------------------------
(* poppler.extract_pdf_text, poppler.get_image_page_numbers and            *)
(* workflow.extract_all_pdf_text                                           *)

\* utils.clean_printable_unicode: the characters that are in no category C*
\* or are "\n", "\t", "\r", and that are no noncharacter (U+FDD0..U+FDEF, and
\* the code points whose low 16 bits are FFFE or FFFF).
clean_printable_unicode(text) ==
    SelectSeq(text,
              LAMBDA c : /\ category(c)[1] # "C" \/ c \in {"\n", "\t", "\r"}
                         /\ ~(\/ 64976 <= ord(c) /\ ord(c) <= 65007
                              \/ ord(c) % 65536 \in {65534, 65535}))

\* The exception that leaves extract_pdf_text and get_image_page_numbers for
\* each outcome of subprocess.run.
poppler_exception(kind) ==
    IF kind = "failed" \/ kind = "timeout" THEN "RuntimeError"
    ELSE IF kind = "missing" THEN "FileNotFoundError"
    ELSE "none"

\* The text extract_pdf_text returns when pdftotext wrote stdout.
extract_pdf_text(stdout) == compress_line_whitespace(clean_printable_unicode(stdout))

\* Whether int(field) returns, for a field that starts with a digit: digits,
\* with single underscores between them.
IsDigits(field) ==
    /\ field # <<>>
    /\ field[1] \in Range(Digits) /\ field[Len(field)] \in Range(Digits)
    /\ \A i \in 1..Len(field) : field[i] \in Range(Digits) \cup {"_"}
    /\ \A i \in 1..(Len(field) - 1) : ~(field[i] = "_" /\ field[i + 1] = "_")

\* int(field) of such a field: the number its digits write
RECURSIVE int(_)
int(field) ==
    IF Len(field) = 1 THEN IndexOf(Digits, field[1]) - 1
    ELSE IF field[Len(field)] = "_" THEN int(SubSeq(field, 1, Len(field) - 1))
    ELSE 10 * int(SubSeq(field, 1, Len(field) - 1)) + (IndexOf(Digits, field[Len(field)]) - 1)

\* fields[0] of every line of the listing that starts with a digit
RECURSIVE PageFields(_)
PageFields(lines) ==
    IF lines = <<>> THEN <<>>
    ELSE LET line == strip(Head(lines))
         IN  IF line = <<>> \/ line[1] \notin Range(Digits)
             THEN PageFields(Tail(lines))
             ELSE <<split(line)[1]>> \o PageFields(Tail(lines))

\* sorted(page_numbers) for a set of int
RECURSIVE sorted_numbers(_)
sorted_numbers(S) ==
    IF S = {} THEN <<>>
    ELSE LET least == CHOOSE x \in S : \A y \in S : x <= y
         IN  <<least>> \o sorted_numbers(S \ {least})

\* get_image_page_numbers when pdfimages wrote stdout: the sorted page
\* numbers, or the ValueError of int().
get_image_page_numbers(stdout) ==
    LET fields == PageFields(splitlines(stdout))
    IN  IF \E i \in 1..Len(fields) : ~IsDigits(fields[i])
        THEN [raised |-> TRUE, pages |-> <<>>]
        ELSE [raised |-> FALSE,
              pages |-> sorted_numbers({int(fields[i]) : i \in 1..Len(fields)})]

\* {line.strip() for line in text.splitlines() if line.strip()}
StrippedLines(text) == {strip(line) : line \in Range(splitlines(text))} \ {<<>>}

\* The text extract_all_pdf_text returns for text_pdf and text_ocr.
all_text(text_pdf, text_ocr, deduplicate) ==
    strip(IF deduplicate
          THEN join_with(<<"\n">>,
                         sorted(ListOf(StrippedLines(text_pdf) \cup StrippedLines(text_ocr))))
          ELSE text_pdf \o <<"\n">> \o text_ocr)

-----------------------------------------------------------------------------
(* Specification of one process calling DiseaseMatcher objects             *)

Resolvers == {"A", "B"}

MaxLimit == 2

Limits == 1..MaxLimit

Thresholds == {80, 85}

NoObject == [alive |-> FALSE, keys |-> <<>>, fuzzy_cache |-> EmptyCache]

\* The object m with _fuzzy_cache an attribute of the class: every object
\* sees the entries that any object has stored.
Self_sharing_cache(m) ==
    LET owners(k) == {x \in Resolvers : k \in DOMAIN inst[x].fuzzy_cache}
        stored    == UNION {DOMAIN inst[x].fuzzy_cache : x \in Resolvers}
    IN  [term_to_cuis |-> lru.term_to_cuis.value, cui_to_icd |-> lru.cui_to_icd.value,
         keys |-> inst[m].keys,
         fuzzy_cache |-> [k \in stored |->
                            IF m \in owners(k) THEN inst[m].fuzzy_cache[k]
                            ELSE inst[CHOOSE x \in owners(k) : TRUE].fuzzy_cache[k]]]

\* The object m as the methods see it: the shared dictionaries and its own fields.
Self(m) ==
    [term_to_cuis |-> lru.term_to_cuis.value, cui_to_icd |-> lru.cui_to_icd.value,
     keys |-> inst[m].keys, fuzzy_cache |-> inst[m].fuzzy_cache]

NoCall ==
    [op |-> "none", m |-> "none", term |-> <<>>, limit |-> 0, threshold |-> 0,
     ret |-> <<>>, searched |-> FALSE, raised |-> FALSE]

InitLoader ==
    /\ lru = [term_to_cuis |-> NotLoaded, cui_to_icd |-> NotLoaded]
    /\ reads = [term_to_cuis |-> 0, cui_to_icd |-> 0]

InitMatcher ==
    /\ inst = [m \in Resolvers |-> NoObject]
    /\ searches = [m \in Resolvers |-> EmptyCache]
    /\ returned = [m \in Resolvers |-> {}]
    /\ call = NoCall

\* m = DiseaseMatcher()
MatcherInit(m) ==
    /\ ~inst[m].alive
    /\ \E okTerms, okCodes \in BOOLEAN :
          LET r == matcher_init([lru |-> lru, reads |-> reads], okTerms, okCodes)
          IN  /\ lru' = r.lru
              /\ reads' = r.reads
              /\ inst' = IF r.raised THEN inst
                         ELSE [inst EXCEPT ![m] = [alive |-> TRUE, keys |-> r.keys,
                                                   fuzzy_cache |-> r.fuzzy_cache]]
              /\ call' = [NoCall EXCEPT !.op = "__init__", !.m = m, !.raised = r.raised]
    /\ UNCHANGED <<searches, returned>>

\* m.exact_match(term)
ExactMatch(m, term) ==
    /\ inst[m].alive
    /\ call' = [NoCall EXCEPT !.op = "exact_match", !.m = m, !.term = term,
                              !.ret = exact_match(Self(m), term)]
    /\ UNCHANGED <<lru, reads, inst, searches, returned>>

\* The state after one fuzzy_match or best_match call with outcome r, and
\* the bookkeeping of the call.
Logged(m, term, r) ==
    LET norm == Normalized(term)
        n    == IF norm \in DOMAIN searches[m] THEN searches[m][norm] ELSE 0
    IN  /\ inst' = [inst EXCEPT ![m].fuzzy_cache = r.fuzzy_cache]
        /\ lru' = [lru EXCEPT !.term_to_cuis.value = r.term_to_cuis,
                              !.cui_to_icd.value = r.cui_to_icd]
        /\ searches' = IF r.searched
                       THEN [searches EXCEPT ![m] = CacheWith(@, norm, n + 1)]
                       ELSE searches
        /\ returned' = IF r.fuzzy
                       THEN [returned EXCEPT ![m] = @ \cup {<<norm, r.ret>>}]
                       ELSE returned

\* m.fuzzy_match(term, limit, threshold)
FuzzyMatch(m, term, limit, threshold) ==
    /\ inst[m].alive
    /\ LET r == fuzzy_match(Self(m), term, limit, threshold)
       IN  /\ Logged(m, term, r)
           /\ call' = [NoCall EXCEPT !.op = "fuzzy_match", !.m = m, !.term = term,
                                     !.limit = limit, !.threshold = threshold,
                                     !.ret = r.ret, !.searched = r.searched]
    /\ UNCHANGED reads

\* m.best_match(term, limit, threshold)
BestMatch(m, term, limit, threshold) ==
    /\ inst[m].alive
    /\ LET r == best_match(Self(m), term, limit, threshold)
       IN  /\ Logged(m, term, r)
           /\ call' = [NoCall EXCEPT !.op = "best_match", !.m = m, !.term = term,
                                     !.limit = limit, !.threshold = threshold,
                                     !.ret = r.ret, !.searched = r.searched]
    /\ UNCHANGED reads

\* The query terms of the calls.
Terms == {T_HTN, T_canser, T_Canser, T_cancers, T_xyz, T_alpha}

\* One call on one of the objects ms, with a query term of terms.
NextWith(ms, terms) ==
    \E m \in ms :
        \/ MatcherInit(m)
        \/ \E term \in terms : ExactMatch(m, term)
        \/ \E term \in terms, limit \in Limits, threshold \in Thresholds :
              FuzzyMatch(m, term, limit, threshold)
        \/ \E term \in terms, limit \in Limits, threshold \in Thresholds :
              BestMatch(m, term, limit, threshold)

NextOn(ms) == NextWith(ms, Terms)

IdleNER ==
    /\ em_raw = Returned(<<>>) /\ em_norm = Returned(<<>>) /\ em_ret = NoValue
    /\ em_err = FALSE /\ em_calls = 0

Init ==
    IdleNorm /\ IdleNER /\ InitLoader /\ InitMatcher /\ IdleMap /\ IdleSyn /\ IdleValid /\ IdleOCR /\ IdleLog /\ IdleText

\* One DiseaseMatcher object in the process.
Next == NextOn({"A"}) /\ UNCHANGED <<normVars, nerVars, mapVars, synVars, vmVars, ocrVars, logVars, textVars>>

Spec == Init /\ [][Next]_vars

-----------------------------------------------------------------------------
(* Specification of normalize_term alone, and of one extract_mentions call *)

\* The arguments of one map_diseases call.
InitMap ==
    /\ md_limit \in Limits
    /\ md_threshold \in Thresholds
    /\ md_ret = NoValue
    /\ md_err = "none"
    /\ md_log = <<>>
    /\ md_calls = 0

\* One call of map_diseases, from its first line to its return or to the
\* exception that leaves it; okModel tells whether spacy.load finds the model.
MapDiseases ==
    /\ md_calls = 0
    /\ md_calls' = 1
    /\ \E okModel \in BOOLEAN :
          IF ~okModel
          THEN /\ md_err' = "spacy.load"
               /\ md_ret' = NoValue
               /\ md_log' = <<>>
               /\ UNCHANGED <<nerVars, loaderVars>>
          ELSE /\ ExtractMentions
               /\ IF em_err'
                  THEN /\ md_err' = "extract_mentions"
                       /\ md_ret' = NoValue
                       /\ md_log' = <<>>
                       /\ UNCHANGED loaderVars
                  ELSE \E okTerms, okCodes \in BOOLEAN :
                          LET r == matcher_init([lru |-> lru, reads |-> reads],
                                                okTerms, okCodes)
                              matcher == [term_to_cuis |-> r.lru.term_to_cuis.value,
                                          cui_to_icd |-> r.lru.cui_to_icd.value,
                                          keys |-> r.keys, fuzzy_cache |-> r.fuzzy_cache]
                          IN  /\ reads' = r.reads
                              /\ IF r.raised
                                 THEN /\ lru' = r.lru
                                      /\ md_err' = "DiseaseMatcher"
                                      /\ md_ret' = NoValue
                                      /\ md_log' = <<>>
                                 ELSE \E mentions \in {sorted_set(em_ret')} :
                                      \E out \in {map_rows(matcher, mentions, md_limit,
                                                            md_threshold, <<>>, <<>>)} :
                                          /\ lru' = [r.lru EXCEPT
                                                        !.term_to_cuis.value = out.term_to_cuis,
                                                        !.cui_to_icd.value = out.cui_to_icd]
                                          /\ md_err' = "none"
                                          /\ md_ret' = out.rows
                                          /\ md_log' = out.log
    /\ UNCHANGED <<md_limit, md_threshold>>

StartNorm ==
    InitNorm /\ IdleNER /\ InitLoader /\ InitMatcher /\ IdleMap /\ IdleSyn /\ IdleValid /\ IdleOCR /\ IdleLog /\ IdleText

SpecNorm == StartNorm /\ [][NextNorm]_vars

NextNER ==
    /\ ExtractMentions
    /\ UNCHANGED <<normVars, loaderVars, matcherVars, mapVars, synVars, vmVars, ocrVars, logVars, textVars>>

StartNER ==
    IdleNorm /\ InitNER /\ InitLoader /\ InitMatcher /\ IdleMap /\ IdleSyn /\ IdleValid /\ IdleOCR /\ IdleLog /\ IdleText

SpecNER == StartNER /\ [][NextNER]_vars

NextMap == MapDiseases /\ UNCHANGED <<normVars, matcherVars, synVars, vmVars, ocrVars, logVars, textVars>>

StartMap ==
    IdleNorm /\ InitNER /\ InitLoader /\ InitMatcher /\ InitMap /\ IdleSyn /\ IdleValid /\ IdleOCR /\ IdleLog /\ IdleText

SpecMap == StartMap /\ [][NextMap]_vars

-----------------------------------------------------------------------------
(* Specification of normalize_term on the entries of its two tables        *)

InitSyn ==
    /\ \E k \in 1..Len(SynEntries), case \in Cases,
          left \in LeftContexts, right \in RightContexts :
          syn_in = [token |-> Cased(SynEntries[k][1], case),
                    synonym |-> SynEntries[k][2], left |-> left, right |-> right]
    /\ syn_out = [token |-> NoValue, synonym |-> NoValue]
    /\ syn_calls = 0

\* normalize_term of the term with the token, then of the term with its synonym.
NormalizeSynonyms ==
    /\ syn_calls = 0
    /\ syn_out' = [token   |-> normalize_term(syn_in.left \o syn_in.token \o syn_in.right),
                   synonym |-> normalize_term(syn_in.left \o syn_in.synonym \o syn_in.right)]
    /\ syn_calls' = 2
    /\ UNCHANGED syn_in

NextSyn ==
    /\ NormalizeSynonyms
    /\ UNCHANGED <<normVars, nerVars, loaderVars, matcherVars, mapVars, vmVars, ocrVars, logVars, textVars>>

StartSyn ==
    IdleNorm /\ IdleNER /\ InitLoader /\ InitMatcher /\ IdleMap /\ InitSyn /\ IdleValid /\ IdleOCR /\ IdleLog /\ IdleText

SpecSyn == StartSyn /\ [][NextSyn]_vars

-----------------------------------------------------------------------------
(* Specification of is_valid_mention alone                                 *)

InitValid ==
    /\ vm_term \in NormInputs
    /\ vm_ret = FALSE
    /\ vm_calls = 0

IsValidMention ==
    /\ vm_calls = 0
    /\ vm_ret' = is_valid_mention(vm_term)
    /\ vm_calls' = 1
    /\ UNCHANGED vm_term

NextValid ==
    /\ IsValidMention
    /\ UNCHANGED <<normVars, nerVars, loaderVars, matcherVars, mapVars, synVars, ocrVars, logVars, textVars>>

StartValid ==
    IdleNorm /\ IdleNER /\ InitLoader /\ InitMatcher /\ IdleMap /\ IdleSyn /\ InitValid /\ IdleOCR /\ IdleLog /\ IdleText

SpecValid == StartValid /\ [][NextValid]_vars

-----------------------------------------------------------------------------
(* Specification of the loaders: direct calls and DiseaseMatcher objects   *)

MaxLoaderCalls == 4

AssetNames == {"term_to_cuis", "cui_to_icd"}

LoaderOp(name) == IF name = "term_to_cuis" THEN "load_term_to_cuis" ELSE "load_cui_to_icd"

\* load_term_to_cuis() or load_cui_to_icd(), called directly
LoadAsset(name) ==
    /\ \E ok \in BOOLEAN :
          LET r == load([lru |-> lru, reads |-> reads], name, ok)
          IN  /\ lru' = r.lru
              /\ reads' = r.reads
              /\ call' = [NoCall EXCEPT !.op = LoaderOp(name), !.ret = r.value,
                                        !.raised = r.raised]
    /\ UNCHANGED <<inst, searches, returned>>

\* One more call, written to the log with the read counts and the memo state
\* it leaves.
NextLoad ==
    /\ Len(ld_log) < MaxLoaderCalls
    /\ \/ \E name \in AssetNames : LoadAsset(name)
       \/ \E m \in Resolvers : MatcherInit(m)
    /\ ld_log' = Append(ld_log, [op |-> call'.op, raised |-> call'.raised,
                                 ret |-> call'.ret, reads |-> reads',
                                 loaded |-> [n \in AssetNames |-> lru'[n].loaded]])
    /\ UNCHANGED <<normVars, nerVars, mapVars, synVars, vmVars, ocrVars, textVars>>

StartLoad ==
    IdleNorm /\ IdleNER /\ InitLoader /\ InitMatcher /\ IdleMap /\ IdleSyn /\ IdleValid /\ IdleOCR /\ IdleLog /\ IdleText

SpecLoad == StartLoad /\ [][NextLoad]_vars

-----------------------------------------------------------------------------
(* Specification of one extract_ocr_text call                              *)

MaxPages == 3

\* The lists of 1-based page numbers, ascending, and None.
PageLists ==
    {[is_none |-> TRUE, list |-> <<>>]}
        \cup {[is_none |-> FALSE, list |-> sorted_pages] :
                sorted_pages \in {q \in UNION {[1..k -> 1..MaxPages] : k \in 0..MaxPages} :
                                    \A i \in 1..(Len(q) - 1) : q[i] < q[i + 1]}}

\* What ocrmypdf wrote to the sidecar file.
SidecarTexts ==
    {<<>>, <<"a", " ", " ", "b">>, <<" ", "a", "\t", "b", " ", "\n", "\r", "\n", "c", " ">>, <<"a", "\n">>}

\* The outcomes of subprocess.run.
OcrRuns ==
    {[kind |-> "ok", text |-> text] : text \in SidecarTexts}
        \cup {[kind |-> kind, text |-> <<>>] : kind \in {"failed", "timeout", "missing"}}

InitOCR ==
    /\ ocr_pages \in PageLists
    /\ ocr_lang \in {L_eng, L_deu}
    /\ ocr_run \in OcrRuns
    /\ ocr_cmd = <<>>
    /\ ocr_ret = NoValue
    /\ ocr_exc = "none"
    /\ ocr_calls = 0

\* One call of extract_ocr_text, from its first line to its return or to the
\* exception that leaves it.
ExtractOcrText ==
    /\ ocr_calls = 0
    /\ ocr_calls' = 1
    /\ ocr_cmd' = ocr_command(ocr_pages.list, ocr_lang)
    /\ ocr_exc' = ocr_exception(ocr_run.kind)
    /\ ocr_ret' = IF ocr_run.kind = "ok" THEN compress_line_whitespace(ocr_run.text)
                  ELSE NoValue
    /\ UNCHANGED <<ocr_pages, ocr_lang, ocr_run>>

NextOCR ==
    /\ ExtractOcrText
    /\ UNCHANGED <<normVars, nerVars, loaderVars, matcherVars, mapVars, synVars, vmVars, logVars, textVars>>

StartOCR ==
    IdleNorm /\ IdleNER /\ InitLoader /\ InitMatcher /\ IdleMap /\ IdleSyn /\ IdleValid /\ InitOCR /\ IdleLog /\ IdleText

SpecOCR == StartOCR /\ [][NextOCR]_vars

-----------------------------------------------------------------------------
(* Specification of a DiseaseMatcher object and one map_diseases call,     *)
(* which makes an object of its own, in one process                        *)

\* The query terms of the calls on the object: one with an exact match
\* and one with fuzzy matches only.
StoreTerms == {T_cancers, T_canser}

\* The tagger outcomes of the document of the map_diseases call: mentions
\* with an exact match, with fuzzy matches and with none, or a tagger error.
StoreRuns ==
    {<<Returned(<<[text |-> T_cancers, label_ |-> "DISEASE"],
                  [text |-> T_canser, label_ |-> "DISEASE"]>>),
       Returned(<<[text |-> T_xyz, label_ |-> "DISEASE"]>>)>>,
     <<Returned(<<[text |-> T_HTN, label_ |-> "DISEASE"]>>), Raised>>}

InitStore ==
    /\ \E run \in StoreRuns : em_raw = run[1] /\ em_norm = run[2]
    /\ em_ret = NoValue
    /\ em_err = FALSE
    /\ em_calls = 0

NextStore ==
    \/ /\ NextWith({"A"}, StoreTerms)
       /\ UNCHANGED <<normVars, nerVars, mapVars, synVars, vmVars, ocrVars, logVars, textVars>>
    \/ /\ MapDiseases
       /\ UNCHANGED <<normVars, matcherVars, synVars, vmVars, ocrVars, logVars, textVars>>

StartStore ==
    IdleNorm /\ InitStore /\ InitLoader /\ InitMatcher /\ InitMap /\ IdleSyn /\ IdleValid /\ IdleOCR /\ IdleLog /\ IdleText

SpecStore == StartStore /\ [][NextStore]_vars

-----------------------------------------------------------------------------
(* Specification of two DiseaseMatcher objects in one process, their calls *)
(* interleaved in any order                                                *)

\* The query terms: two with the same normalized form and fuzzy matches
\* only, and one with an exact match.
TwoTerms == {T_canser, T_Canser, T_cancers}

NextTwo ==
    /\ NextWith(Resolvers, TwoTerms)
    /\ UNCHANGED <<normVars, nerVars, mapVars, synVars, vmVars, ocrVars, logVars, textVars>>

StartTwo ==
    IdleNorm /\ IdleNER /\ InitLoader /\ InitMatcher /\ IdleMap /\ IdleSyn /\ IdleValid /\ IdleOCR /\ IdleLog /\ IdleText

SpecTwo == StartTwo /\ [][NextTwo]_vars

-----------------------------------------------------------------------------
(* Specification of one extract_all_pdf_text call, one external program    *)
(* at a time                                                               *)

\* What pdftotext wrote to stdout.
PdfTexts ==
    {<<>>,
     <<"a", " ", " ", "b", "\r", "\n", "\f", "U+00E9", "U+0000", "U+200B", "U+FFFE", " ", "\n">>,
     <<"c">>}

\* What pdfimages -list wrote to stdout: the two header lines alone, with one
\* image, with images on pages 2, 1 and 1, and with a first field that is no
\* number.
ImageListings ==
    {<<"p", "a", "g", "e", " ", "n", "u", "m", "\n", "-", "-", "-", "-", "\n">>,
     <<"p", "a", "g", "e", " ", "n", "u", "m", "\n", "-", "-", "-", "-", "\n",
       " ", " ", "1", " ", "0", "\n">>,
     <<"p", "a", "g", "e", " ", "n", "u", "m", "\n", "-", "-", "-", "-", "\n",
       " ", "2", " ", "0", "\n", " ", "1", " ", "1", "\r", " ", "1", " ", "2", "\n">>,
     <<"1", "x", " ", "0", "\n">>}

\* The outcomes of subprocess.run for a program that writes one of texts.
ProcessRuns(texts) ==
    {[kind |-> "ok", text |-> text] : text \in texts}
        \cup {[kind |-> kind, text |-> <<>>] : kind \in {"failed", "timeout", "missing"}}

InitText ==
    /\ ap_pdf \in ProcessRuns(PdfTexts)
    /\ ap_img \in ProcessRuns(ImageListings)
    /\ ap_dedup \in BOOLEAN
    /\ ap_pc = "extract_pdf_text"
    /\ ap_steps = <<>>
    /\ ap_text_pdf = <<>>
    /\ ap_pages = <<>>
    /\ ap_ret = NoValue
    /\ ap_exc = "none"
    /\ ocr_pages = [is_none |-> TRUE, list |-> <<>>]
    /\ ocr_lang \in {L_eng, L_deu}
    /\ ocr_run \in OcrRuns
    /\ ocr_cmd = <<>>
    /\ ocr_ret = NoValue
    /\ ocr_exc = "none"
    /\ ocr_calls = 0

\* text_pdf = extract_pdf_text(pdf_path, timeout=pdf_timeout), going on with
\* an empty text when pdftotext failed.
ExtractPdfText_ignoring_failure ==
    /\ ap_pc = "extract_pdf_text"
    /\ ap_steps' = Append(ap_steps, "pdftotext")
    /\ ap_text_pdf' = IF ap_pdf.kind = "ok" THEN extract_pdf_text(ap_pdf.text) ELSE <<>>
    /\ ap_pc' = "get_image_page_numbers"
    /\ UNCHANGED <<ap_pdf, ap_img, ap_dedup, ap_pages, ap_ret, ap_exc, ocrVars>>

\* text_pdf = extract_pdf_text(pdf_path, timeout=pdf_timeout)
ExtractPdfText ==
    /\ ap_pc = "extract_pdf_text"
    /\ ap_steps' = Append(ap_steps, "pdftotext")
    /\ IF ap_pdf.kind = "ok"
       THEN /\ ap_text_pdf' = extract_pdf_text(ap_pdf.text)
            /\ ap_pc' = "get_image_page_numbers"
            /\ ap_exc' = ap_exc
       ELSE /\ ap_text_pdf' = ap_text_pdf
            /\ ap_pc' = "raised"
            /\ ap_exc' = poppler_exception(ap_pdf.kind)
    /\ UNCHANGED <<ap_pdf, ap_img, ap_dedup, ap_pages, ap_ret, ocrVars>>

\* image_pages = get_image_page_numbers(pdf_path, timeout=pdf_timeout)
GetImagePageNumbers ==
    /\ ap_pc = "get_image_page_numbers"
    /\ ap_steps' = Append(ap_steps, "pdfimages")
    /\ LET r == get_image_page_numbers(ap_img.text)
       IN  IF ap_img.kind # "ok"
           THEN /\ ap_pages' = ap_pages
                /\ ap_pc' = "raised"
                /\ ap_exc' = poppler_exception(ap_img.kind)
           ELSE IF r.raised
           THEN /\ ap_pages' = ap_pages
                /\ ap_pc' = "raised"
                /\ ap_exc' = "ValueError"
           ELSE /\ ap_pages' = r.pages
                /\ ap_pc' = "extract_ocr_text"
                /\ ap_exc' = ap_exc
    /\ UNCHANGED <<ap_pdf, ap_img, ap_dedup, ap_text_pdf, ap_ret, ocrVars>>

\* The rest of the call: extract_ocr_text when image_pages is not empty, then
\* the merge of text_pdf and text_ocr and the return.
ExtractOcrText_and_return ==
    /\ ap_pc = "extract_ocr_text"
    /\ IF ap_pages # <<>>
       THEN /\ ap_steps' = Append(ap_steps, "ocrmypdf")
            /\ ocr_pages' = [is_none |-> FALSE, list |-> ap_pages]
            /\ ocr_cmd' = ocr_command(ap_pages, ocr_lang)
            /\ ocr_calls' = ocr_calls + 1
            /\ ocr_exc' = ocr_exception(ocr_run.kind)
            /\ IF ocr_run.kind = "ok"
               THEN /\ ocr_ret' = compress_line_whitespace(ocr_run.text)
                    /\ ap_ret' = all_text(ap_text_pdf, ocr_ret', ap_dedup)
                    /\ ap_pc' = "returned"
                    /\ ap_exc' = ap_exc
               ELSE /\ ocr_ret' = ocr_ret
                    /\ ap_ret' = ap_ret
                    /\ ap_pc' = "raised"
                    /\ ap_exc' = ocr_exception(ocr_run.kind)
       ELSE /\ ap_ret' = all_text(ap_text_pdf, <<>>, ap_dedup)
            /\ ap_pc' = "returned"
            /\ UNCHANGED <<ap_steps, ap_exc, ocr_pages, ocr_cmd, ocr_calls, ocr_exc, ocr_ret>>
    /\ UNCHANGED <<ap_pdf, ap_img, ap_dedup, ap_text_pdf, ap_pages, ocr_lang, ocr_run>>

NextText ==
    /\ ExtractPdfText \/ GetImagePageNumbers \/ ExtractOcrText_and_return
    /\ UNCHANGED <<normVars, nerVars, loaderVars, matcherVars, mapVars, synVars, vmVars, logVars>>

StartText ==
    IdleNorm /\ IdleNER /\ InitLoader /\ InitMatcher /\ IdleMap /\ IdleSyn /\ IdleValid /\ IdleLog /\ InitText

SpecText == StartText /\ [][NextText]_vars

-----------------------------------------------------------------------------
(* Properties of DiseaseMatcher (checked under Spec)                       *)

\* score == n for a score and an int n
ScoreIs(score, n) == score.whole = n /\ score.frac = <<>>

\* C1: every record a fuzzy_match(term, limit, threshold) call returns has a
\* score that is at least the threshold passed to that call.
C1_ScoresMeetThreshold ==
    call.op = "fuzzy_match" =>
        \A i \in 1..Len(call.ret) : ScoreAtLeast(call.ret[i].score, call.threshold)

\* C2: on one matcher, all fuzzy_match calls whose terms have the same
\* normalized form returned the same list, whatever their limit and threshold,
\* and process.extract has run at most once for each normalized term.
C2_SameResultOneSearch ==
    \A m \in Resolvers :
        /\ \A p, q \in returned[m] : p[1] = q[1] => p[2] = q[2]
        /\ \A norm \in DOMAIN searches[m] : searches[m][norm] <= 1

\* A fuzzy_match call with threshold 80 answered from the cache with the empty
\* list an earlier call with threshold 85 and another spelling of the term left.
C2_Witness ==
    /\ call.op = "fuzzy_match"
    /\ ~call.searched
    /\ call.term = T_Canser
    /\ call.threshold = 80
    /\ call.ret = <<>>
    /\ searches[call.m][Normalized(call.term)] = 1

\* The records exact_match finds for the term of the step's call.
ExactOfCall == exact_match(Self(call'.m), call'.term)

\* C3: when exact_match(term) is not empty, best_match returns the exact
\* records, each with score 100 and the normalized term as matched, calls no
\* similarity search and leaves the fuzzy cache as it is.
C3_ExactMatchWins ==
    [][(call'.op = "best_match" /\ ExactOfCall # <<>>) =>
          /\ inst' = inst
          /\ searches' = searches
          /\ ~call'.searched
          /\ Len(call'.ret) = Len(ExactOfCall)
          /\ \A i \in 1..Len(call'.ret) :
                /\ DOMAIN call'.ret[i] = {"matched", "score", "cui", "icd_codes"}
                /\ ScoreIs(call'.ret[i].score, 100)
                /\ call'.ret[i].matched = Normalized(call'.term)
                /\ call'.ret[i].cui = ExactOfCall[i].cui
                /\ call'.ret[i].icd_codes = ExactOfCall[i].icd_codes]_vars

\* best_match returned the exact records of a term for which the cache holds
\* the result of an earlier fuzzy_match.
C3_Witness ==
    /\ call.op = "best_match"
    /\ call.ret # <<>>
    /\ ~call.ret[1].score.is_float
    /\ Normalized(call.term) \in DOMAIN inst[call.m].fuzzy_cache
    /\ inst[call.m].fuzzy_cache[Normalized(call.term)] # call.ret

\* C4: when exact_match(term) is empty, best_match returns the list
\* fuzzy_match(term, limit, threshold) returns in the same state, the fuzzy
\* scores as computed.
C4_FallsBackToFuzzy ==
    [][(call'.op = "best_match" /\ ExactOfCall = <<>>) =>
          call'.ret = fuzzy_match(Self(call'.m), call'.term, call'.limit,
                                  call'.threshold).ret]_vars

\* best_match returned fuzzy records with a score below 100.
C4_Witness ==
    /\ call.op = "best_match"
    /\ call.ret # <<>>
    /\ call.ret[1].score.is_float
    /\ ~ScoreAtLeast(call.ret[1].score, 100)

\* The CUIs of the normalized form of the last call's term.
CuisOfCall == Get(lru.term_to_cuis.value, Normalized(call.term), <<>>)

\* C5 as stated: exact_match returns one record per CUI of the normalized
\* term, in the dictionary's order, each with score 100, the normalized term as
\* matched and the CUI's codes (the empty list when it has none); the empty
\* list when the normalized term is no key.
C5_ExactRecordsWithScore ==
    call.op = "exact_match" =>
        /\ Len(call.ret) = Len(CuisOfCall)
        /\ \A i \in 1..Len(call.ret) :
              /\ "score" \in DOMAIN call.ret[i]
              /\ ScoreIs(call.ret[i].score, 100)
              /\ call.ret[i].matched = Normalized(call.term)
              /\ call.ret[i].cui = CuisOfCall[i]
              /\ call.ret[i].icd_codes = Get(lru.cui_to_icd.value, CuisOfCall[i], <<>>)

\* C5 amended: exact_match returns one record per CUI of the normalized term,
\* in the dictionary's order, each with the normalized term as matched, the CUI
\* and the CUI's codes (the empty list when it has none) and with no score
\* field; the empty list when the normalized term is no key.
C5_ExactRecords ==
    call.op = "exact_match" =>
        /\ Len(call.ret) = Len(CuisOfCall)
        /\ \A i \in 1..Len(call.ret) :
              /\ DOMAIN call.ret[i] = {"matched", "cui", "icd_codes"}
              /\ call.ret[i].matched = Normalized(call.term)
              /\ call.ret[i].cui = CuisOfCall[i]
              /\ call.ret[i].icd_codes = Get(lru.cui_to_icd.value, CuisOfCall[i], <<>>)

\* exact_match of a plural returned the two records of its singular, the
\* second for a CUI without codes.
C5_Witness ==
    /\ call.op = "exact_match"
    /\ Len(call.ret) = 2
    /\ call.ret[1].matched # call.term
    /\ call.ret[1].icd_codes # <<>>
    /\ call.ret[2].icd_codes = <<>>

-----------------------------------------------------------------------------
(* Properties of map_diseases (checked under SpecMap)                      *)

\* The rows of the returned list that carry the mention, as positions.
RowsWith(mention) == {i \in 1..Len(md_ret) : md_ret[i].mention = mention}

\* The best_match calls made for the mention, as positions in the log.
CallsFor(mention) == {i \in 1..Len(md_log) : md_log[i].term = mention}

\* C6: a map_diseases call that returns has at least one row for every mention
\* extract_mentions returned, and for a mention whose best_match result is
\* empty exactly one row, its matched, score, cui and icd_codes all "".
C6_RowForEveryMention ==
    (md_calls = 1 /\ md_err = "none") =>
        \A mention \in Range(em_ret) :
            /\ RowsWith(mention) # {}
            /\ CallsFor(mention) # {}
            /\ \A c \in CallsFor(mention) :
                  md_log[c].ret = <<>> =>
                      /\ Cardinality(RowsWith(mention)) = 1
                      /\ \A i \in RowsWith(mention) :
                            /\ md_ret[i].matched = <<>>
                            /\ md_ret[i].score = <<>>
                            /\ md_ret[i].cui = <<>>
                            /\ md_ret[i].icd_codes = <<>>

\* A returned list with the one empty row of a mention that matched nothing
\* and two rows of a mention that matched.
C6_Witness ==
    /\ md_calls = 1
    /\ md_err = "none"
    /\ \E i \in 1..Len(md_ret) :
          /\ md_ret[i].matched = <<>>
          /\ md_ret[i].mention \in Range(em_ret)
    /\ \E i, j \in 1..Len(md_ret) :
          /\ i # j
          /\ md_ret[i].mention = md_ret[j].mention
          /\ md_ret[i].matched # <<>>

-----------------------------------------------------------------------------
(* Properties of extract_mentions (checked under SpecNER)                  *)

EmReturned == em_calls = 2 /\ ~em_err

\* The spans of the two passes in merge order: the raw pass, then the normalized pass.
EmMerged == em_raw.ents \o em_norm.ents

\* The positions of the disease-labelled spans whose text is a valid mention.
EmValid ==
    {i \in 1..Len(EmMerged) :
        EmMerged[i].label_ = "DISEASE" /\ is_valid_mention(EmMerged[i].text)}

EmForms == {Normalized(EmMerged[i].text) : i \in EmValid}

\* The text of the first valid disease span, in merge order, with normalized form f.
EmFirst(f) ==
    LET at == {i \in EmValid : Normalized(EmMerged[i].text) = f}
    IN  EmMerged[CHOOSE i \in at : \A j \in at : i <= j].text

\* C7: extract_mentions returns exactly one mention per distinct normalized
\* form of the valid disease-labelled spans of the two passes, and that mention
\* is the form's first occurrence in merge order (raw pass before normalized
\* pass); spans with another label or an invalid text never appear.
C7_OnePerFormFirstSeen ==
    EmReturned =>
        /\ Len(em_ret) = Cardinality(EmForms)
        /\ Range(em_ret) = {EmFirst(f) : f \in EmForms}

\* A form seen with one text in the raw pass and another in the normalized
\* pass: the raw-pass text is the one returned.
C7_Witness ==
    /\ EmReturned
    /\ \E i \in 1..Len(em_raw.ents), j \in 1..Len(em_norm.ents) :
          /\ em_raw.ents[i].label_ = "DISEASE"
          /\ em_norm.ents[j].label_ = "DISEASE"
          /\ em_raw.ents[i].text # em_norm.ents[j].text
          /\ Normalized(em_raw.ents[i].text) = Normalized(em_norm.ents[j].text)
          /\ em_ret = <<em_raw.ents[i].text>>
    /\ \E k \in 1..Len(EmMerged) : EmMerged[k].label_ = "CHEMICAL"

\* C8: the list extract_mentions returns is in strictly ascending
\* lexicographic (code point) order of the original mention texts.
C8_StrictlySorted ==
    EmReturned => \A i \in 1..(Len(em_ret) - 1) : StrLess(em_ret[i], em_ret[i + 1])

\* Three mentions returned, the one tagged first returned last.
C8_Witness ==
    /\ EmReturned
    /\ Len(em_ret) = 3
    /\ Len(em_raw.ents) > 0
    /\ em_raw.ents[1].text = em_ret[3]

\* The reorderings of a list.
Reorderings(xs) ==
    {[i \in 1..Len(xs) |-> xs[f[i]]] : f \in Permutations(1..Len(xs))}

\* C9 as stated: whatever order the tagger returns the spans of each pass in,
\* extract_mentions returns the same sequence.
C9_SameSequenceForAnyOrder ==
    EmReturned =>
        \A r \in Reorderings(em_raw.ents), q \in Reorderings(em_norm.ents) :
            extract_mentions(r, q) = em_ret

\* The positions of the valid disease spans with normalized form f in the
\* pass where the form first occurs: the raw pass when a valid raw span has
\* the form, the normalized pass otherwise.
EmFirstPass(f) ==
    LET at  == {i \in EmValid : Normalized(EmMerged[i].text) = f}
        raw == {i \in at : i <= Len(em_raw.ents)}
    IN  IF raw # {} THEN raw ELSE at

\* Every form has one text only in the pass where it first occurs.
EmFirstPassHasOneText ==
    \A f \in EmForms : \A i, j \in EmFirstPass(f) : EmMerged[i].text = EmMerged[j].text

\* What extract_mentions returns for each order of the spans within the passes.
EmReordered ==
    {extract_mentions(r, q) :
        r \in Reorderings(em_raw.ents), q \in Reorderings(em_norm.ents)}

\* C9 amended: whatever order the tagger returns the spans of each pass in,
\* extract_mentions returns mentions with the same set of normalized forms
\* (so equally many mentions); and it returns the same sequence for every
\* such order exactly when every form has one text only among the valid
\* disease spans of the pass where it first occurs. A text of the normalized
\* pass never changes the result for a form of the raw pass; two different
\* texts of one form in the form's first pass make the result depend on
\* their order.
C9_SameFormsForAnyOrder ==
    EmReturned =>
        \E results \in {EmReordered} :
            /\ \A other \in results :
                  /\ {Normalized(m) : m \in Range(other)}
                        = {Normalized(m) : m \in Range(em_ret)}
                  /\ Len(other) = Len(em_ret)
            /\ (results = {em_ret}) <=> EmFirstPassHasOneText

\* A form tagged with one text in the raw pass and with another in the
\* normalized pass, beside a second raw span of another form: the two
\* mentions are returned in an order that is not the order they were tagged
\* in, and every order of the spans gives the same sequence.
C9_Witness ==
    /\ EmReturned
    /\ EmFirstPassHasOneText
    /\ Len(em_raw.ents) = 2
    /\ \E i \in 1..Len(em_raw.ents), j \in 1..Len(em_norm.ents) :
          /\ em_raw.ents[i].label_ = "DISEASE"
          /\ em_norm.ents[j].label_ = "DISEASE"
          /\ em_raw.ents[i].text # em_norm.ents[j].text
          /\ is_valid_mention(em_raw.ents[i].text)
          /\ Normalized(em_raw.ents[i].text) = Normalized(em_norm.ents[j].text)
    /\ Len(em_ret) = 2
    /\ em_ret # extract_mentions_unsorted(em_raw.ents, em_norm.ents)

-----------------------------------------------------------------------------
(* Properties of normalize_term (checked under SpecNorm)                   *)

\* C10: normalize_term is idempotent: applied to its own result it returns
\* that result unchanged.
C10_Idempotent == nt_calls = 2 => nt_ret2 = nt_ret

\* An input that an abbreviation expansion made longer, normalized twice.
C10_Witness == nt_calls = 2 /\ nt_ret # nt_term /\ Len(nt_ret) > Len(nt_term)

-----------------------------------------------------------------------------
(* Properties of normalize_term on table entries (checked under SpecSyn)   *)

\* The token is a whole word of the term: no word character stands next to it.
SynWholeWord ==
    /\ syn_in.left = <<>> \/ ~IsWordChar(syn_in.left[Len(syn_in.left)])
    /\ syn_in.right = <<>> \/ ~IsWordChar(syn_in.right[1])

\* The term with the token after the three cleaning steps, the tables not applied.
SynCleaned ==
    strip(CollapseWhitespace(SubPunctuation(lower(syn_in.left \o syn_in.token \o syn_in.right))))

\* C11: for every entry of the abbreviation table and of the plural table, in
\* any letter case of the token, a term with the token as a whole word and the
\* term with the expansion (the singular) in its place normalize to the same
\* string; a token that is part of a longer word is left as it is.
C11_SynonymsNormalizeAlike ==
    syn_calls = 2 =>
        IF SynWholeWord
        THEN syn_out.token = syn_out.synonym
        ELSE syn_out.token = SynCleaned

\* An upper case token between two hyphens was replaced by its expansion.
C11_Witness ==
    /\ syn_calls = 2
    /\ SynWholeWord
    /\ syn_in.left = <<"x", "-">>
    /\ syn_in.right = <<"-", "x">>
    /\ syn_in.token # lower(syn_in.token)
    /\ syn_out.token # SynCleaned
    /\ Len(syn_out.token) > Len(SynCleaned)

-----------------------------------------------------------------------------
(* Properties of the cleaning steps of normalize_term (checked under SpecNorm) *)

\* C12: the result of normalize_term consists of alphanumeric characters,
\* periods, hyphens and single interior spaces only (every other character,
\* the underscore included, was replaced by a space), and has no whitespace at
\* its ends.
C12_OnlyCleanCharacters ==
    nt_calls >= 1 =>
        /\ \A i \in 1..Len(nt_ret) :
              isalnum(nt_ret[i]) \/ nt_ret[i] \in {".", "-", " "}
        /\ \A i \in 1..(Len(nt_ret) - 1) : ~(nt_ret[i] = " " /\ nt_ret[i + 1] = " ")
        /\ nt_ret # <<>> => (nt_ret[1] # " " /\ nt_ret[Len(nt_ret)] # " ")

-----------------------------------------------------------------------------
(* Properties of is_valid_mention (checked under SpecValid)                *)

\* C13: is_valid_mention(raw) is true exactly when normalize_term(raw) has an
\* alphanumeric character, and that is exactly when raw has one, a letter
\* beyond ASCII included: it is false for the empty input and for inputs made
\* of whitespace, punctuation marks and symbols only (by their Unicode
\* category, the bullet and the underscore among them).
C13_ValidIffAlphanumeric ==
    vm_calls = 1 =>
        /\ \E norm \in {normalize_term(vm_term)} :
              vm_ret <=> \E i \in 1..Len(norm) : isalnum(norm[i])
        /\ vm_ret <=> \E i \in 1..Len(vm_term) : isalnum(vm_term[i])
        /\ (\A i \in 1..Len(vm_term) :
                IsSpace(vm_term[i]) \/ category(vm_term[i])[1] \in {"P", "S"}) => ~vm_ret
        /\ (\E i \in 1..Len(vm_term) : category(vm_term[i])[1] \in {"L", "N"}) => vm_ret

\* The call returned False for a bullet, alone or followed by a space.
C13_Witness ==
    /\ vm_calls = 1
    /\ vm_term \in {<<"U+2022">>, <<"U+2022", " ">>}
    /\ ~vm_ret

-----------------------------------------------------------------------------
(* Order of the rows of map_diseases (checked under SpecMap)               *)

\* The number of rows the i-th best_match call of the run stands for.
RowCount(i) == IF md_log[i].ret = <<>> THEN 1 ELSE Len(md_log[i].ret)

\* The number of rows that stand before the rows of the i-th call.
RECURSIVE RowsBefore(_)
RowsBefore(i) == IF i <= 1 THEN 0 ELSE RowsBefore(i - 1) + RowCount(i - 1)

\* C14: the mentions best_match is called for are, call by call, the list
\* extract_mentions returned (sorted(set(...)) neither reorders nor drops
\* one), and the returned rows are the rows of the first mention, then those
\* of the second, and so on: one row per record of the best_match result, in
\* its order, or the one empty row.
C14_RowsInMentionOrder ==
    (md_calls = 1 /\ md_err = "none") =>
        /\ [i \in 1..Len(md_log) |-> md_log[i].term] = em_ret
        /\ Len(md_ret) = RowsBefore(Len(md_log) + 1)
        /\ \A i \in 1..Len(md_log) : \A j \in 1..RowCount(i) :
              LET row == md_ret[RowsBefore(i) + j]
              IN  /\ row.mention = em_ret[i]
                  /\ IF md_log[i].ret = <<>>
                     THEN row.matched = <<>> /\ row.cui = <<>>
                     ELSE /\ row.matched = md_log[i].ret[j].matched
                          /\ row.cui = md_log[i].ret[j].cui

\* Three mentions gave more than three rows, an empty row not the last of them.
C14_Witness ==
    /\ md_calls = 1
    /\ md_err = "none"
    /\ Len(em_ret) = 3
    /\ Len(md_ret) > 3
    /\ \E i \in 1..(Len(md_ret) - 1) : md_ret[i].matched = <<>>

-----------------------------------------------------------------------------
(* Fields of the rows of map_diseases (checked under SpecMap)              *)

\* The characters of the model's strings.
Characters == {UnicodeData[i][1] : i \in 1..Len(UnicodeData)}

\* s.split(",") for a str that is not empty
RECURSIVE SplitFrom(_, _, _, _)
SplitFrom(s, i, part, parts) ==
    IF i > Len(s) THEN Append(parts, part)
    ELSE IF s[i] = "," THEN SplitFrom(s, i + 1, <<>>, Append(parts, part))
    ELSE SplitFrom(s, i + 1, Append(part, s[i]), parts)

\* The codes a codes field lists: none for "", else its parts between commas.
CodesIn(field) == IF field = <<>> THEN <<>> ELSE SplitFrom(field, 1, <<>>, <<>>)

\* C15: every row of map_diseases has exactly the fields mention, matched,
\* score, cui and icd_codes, each a string; icd_codes lists the codes of the
\* record joined by commas and is "" when the concept has no codes; score is
\* "100" for an exact match and not empty for any match.
C15_FiveStringFields ==
    (md_calls = 1 /\ md_err = "none") =>
        /\ \A r \in 1..Len(md_ret) :
              /\ DOMAIN md_ret[r] = {"mention", "matched", "score", "cui", "icd_codes"}
              /\ \A f \in DOMAIN md_ret[r] : md_ret[r][f] \in Seq(Characters)
        /\ \A i \in 1..Len(md_log) : \A j \in 1..Len(md_log[i].ret) :
              LET row == md_ret[RowsBefore(i) + j]
                  rec == md_log[i].ret[j]
              IN  /\ CodesIn(row.icd_codes) = rec.icd_codes
                  /\ rec.icd_codes = <<>> => row.icd_codes = <<>>
                  /\ row.score # <<>>
                  /\ ~rec.score.is_float => row.score = <<"1", "0", "0">>

\* Rows of a match with two codes and of a match with none, and an empty row.
C15_Witness ==
    /\ md_calls = 1
    /\ md_err = "none"
    /\ \E r \in 1..Len(md_ret) : "," \in Range(md_ret[r].icd_codes)
    /\ \E r \in 1..Len(md_ret) : md_ret[r].cui # <<>> /\ md_ret[r].icd_codes = <<>>
    /\ \E r \in 1..Len(md_ret) : md_ret[r].cui = <<>> /\ md_ret[r].score = <<>>

-----------------------------------------------------------------------------
(* Properties of the loaders (checked under SpecLoad)                      *)

\* C16: each asset is read successfully at most once in the process; after a
\* loader call that returned, no later loader call or DiseaseMatcher()
\* reads that asset again, and every later call of that loader returns, without
\* raising, the value the first one returned; a loader call that raised leaves
\* nothing memoized.
C16_ReadAtMostOnce ==
    \A name \in AssetNames :
        /\ reads[name] <= 1
        /\ \A i \in 1..Len(ld_log) :
              /\ (ld_log[i].op = LoaderOp(name) /\ ld_log[i].raised)
                    => ~ld_log[i].loaded[name]
              /\ (ld_log[i].op = LoaderOp(name) /\ ~ld_log[i].raised) =>
                    /\ ld_log[i].loaded[name]
                    /\ \A j \in (i + 1)..Len(ld_log) :
                          /\ ld_log[j].reads[name] = ld_log[i].reads[name]
                          /\ ld_log[j].op = LoaderOp(name) =>
                                (~ld_log[j].raised /\ ld_log[j].ret = ld_log[i].ret)
              /\ (ld_log[i].op = "__init__" /\ ~ld_log[i].raised) =>
                    \A j \in (i + 1)..Len(ld_log) : ld_log[j].reads = ld_log[i].reads

\* load_term_to_cuis raised, then returned, then a DiseaseMatcher was made,
\* then load_term_to_cuis returned again: each asset was read once.
C16_Witness ==
    /\ Len(ld_log) = 4
    /\ ld_log[1].op = "load_term_to_cuis" /\ ld_log[1].raised
    /\ ld_log[2].op = "load_term_to_cuis" /\ ~ld_log[2].raised
    /\ ld_log[3].op = "__init__" /\ ~ld_log[3].raised
    /\ ld_log[4].op = "load_term_to_cuis" /\ ld_log[4].ret = ld_log[2].ret
    /\ reads = [term_to_cuis |-> 1, cui_to_icd |-> 1]

-----------------------------------------------------------------------------
(* Failure of the asset load in map_diseases (checked under SpecMap)       *)

\* Both dictionaries are in memory.
BothLoaded == lru.term_to_cuis.loaded /\ lru.cui_to_icd.loaded

\* C17: when one of the two loaders raises in DiseaseMatcher(), map_diseases
\* ends with that exception: it made no best_match call and returns no row;
\* and a run that returns rows had both dictionaries loaded in full.
C17_LoadFailureIsFatal ==
    md_calls = 1 =>
        /\ (em_calls = 2 /\ ~em_err /\ ~BothLoaded) =>
              (md_err = "DiseaseMatcher" /\ md_log = <<>> /\ md_ret = NoValue)
        /\ md_err = "DiseaseMatcher" => (~BothLoaded /\ md_log = <<>> /\ md_ret = NoValue)
        /\ md_err = "none" =>
              /\ BothLoaded
              /\ lru.term_to_cuis.value = TermToCuisAsset
              /\ lru.cui_to_icd.value = CuiToIcdAsset

\* Two mentions were extracted, term_to_cuis was loaded, cui_to_icd was not:
\* the run ended in the exception of DiseaseMatcher().
C17_Witness ==
    /\ md_calls = 1
    /\ md_err = "DiseaseMatcher"
    /\ Len(em_ret) = 2
    /\ lru.term_to_cuis.loaded
    /\ ~lru.cui_to_icd.loaded

-----------------------------------------------------------------------------
(* Exceptions of the tagger in extract_mentions (checked under SpecNER)    *)

\* C18: when the tagger raises on the raw text, extract_mentions ends with
\* that exception after this one tagger call; when it raises on the
\* normalized text, after these two calls; in both cases no list is returned,
\* the mentions of the raw pass included; and the call ends with an exception
\* in no other case.
C18_TaggerErrorPropagates ==
    em_calls > 0 =>
        /\ em_raw.raises => (em_err /\ em_ret = NoValue /\ em_calls = 1)
        /\ (~em_raw.raises /\ em_norm.raises) =>
              (em_err /\ em_ret = NoValue /\ em_calls = 2)
        /\ em_err => (em_raw.raises \/ em_norm.raises)

\* The tagger found a valid disease mention in the raw text and raised on the
\* normalized text: the call returned nothing.
C18_Witness ==
    /\ em_calls = 2
    /\ em_err
    /\ em_ret = NoValue
    /\ em_norm.raises
    /\ \E i \in 1..Len(em_raw.ents) :
          em_raw.ents[i].label_ = "DISEASE" /\ is_valid_mention(em_raw.ents[i].text)

-----------------------------------------------------------------------------
(* Exceptions of extract_ocr_text (checked under SpecOCR)                  *)

\* C19: when the ocrmypdf command fails (it exits with a status that is not
\* 0), extract_ocr_text raises subprocess.CalledProcessError.
C19_RaisesCalledProcessError ==
    (ocr_calls = 1 /\ ocr_run.kind = "failed") => ocr_exc = "CalledProcessError"

-----------------------------------------------------------------------------
(* The result of a fuzzy_match that searched (checked under Spec)          *)

\* The candidate terms of the records the last call returned.
Candidates == {call.ret[i].matched : i \in 1..Len(call.ret)}

\* The keys of term_to_cuis.
DictKeys == {lru.term_to_cuis.value[i][1] : i \in 1..Len(lru.term_to_cuis.value)}

\* The similarity of the last call's normalized term and a key.
ScoreOfKey(k) == Ratio(Normalized(call.term), k)

\* The records the last call returned for the candidate c, in order.
RecordsOf(c) == SelectSeq(call.ret, LAMBDA r : r.matched = c)

\* C20: a fuzzy_match(term, limit, threshold) call that misses the cache
\* returns records of at most limit candidate keys, in non-increasing score
\* order; every candidate scores at least threshold and has one record per
\* CUI of term_to_cuis[candidate], in that order, with the candidate, its
\* score and the CUI's codes (the empty list if none); a key that scores at
\* least threshold is left out only when limit candidates score no less.
C20_MissReturnsTopCandidates ==
    (call.op = "fuzzy_match" /\ call.searched) =>
        /\ Cardinality(Candidates) <= call.limit
        /\ \A i, j \in 1..Len(call.ret) :
              i < j => ~ScoreGreater(call.ret[j].score, call.ret[i].score)
        /\ \A c \in Candidates :
              /\ c \in DictKeys
              /\ ScoreAtLeast(ScoreOfKey(c), call.threshold)
              /\ LET cuis == Item(lru.term_to_cuis.value, c)
                 IN  /\ Len(RecordsOf(c)) = Len(cuis)
                     /\ \A i \in 1..Len(cuis) :
                           /\ RecordsOf(c)[i].cui = cuis[i]
                           /\ RecordsOf(c)[i].score = ScoreOfKey(c)
                           /\ RecordsOf(c)[i].icd_codes
                                 = Get(lru.cui_to_icd.value, cuis[i], <<>>)
        /\ \A k \in DictKeys \ Candidates :
              ScoreAtLeast(ScoreOfKey(k), call.threshold) =>
                  /\ Cardinality(Candidates) = call.limit
                  /\ \A c \in Candidates : ~ScoreGreater(ScoreOfKey(k), ScoreOfKey(c))

\* A search with limit 2 returned three records of two candidates, one of
\* them for a CUI without codes, and left out a key below the threshold.
C20_Witness ==
    /\ call.op = "fuzzy_match"
    /\ call.searched
    /\ call.limit = 2
    /\ Cardinality(Candidates) = 2
    /\ Len(call.ret) = 3
    /\ \E i \in 1..Len(call.ret) : call.ret[i].icd_codes = <<>>
    /\ \E k \in DictKeys \ Candidates : ~ScoreAtLeast(ScoreOfKey(k), call.threshold)

-----------------------------------------------------------------------------
(* The dictionaries and the key lists (checked under SpecStore)            *)

\* C21: after every construction, exact_match, fuzzy_match, best_match and
\* map_diseases call, a loaded term_to_cuis and a loaded cui_to_icd are what
\* the loader returned, and the key list of every object is the list of the
\* keys of term_to_cuis; the score 100 that best_match writes changes none.
C21_DictionariesNeverChange ==
    /\ lru.term_to_cuis.loaded => lru.term_to_cuis.value = TermToCuisAsset
    /\ lru.cui_to_icd.loaded => lru.cui_to_icd.value = CuiToIcdAsset
    /\ \A m \in Resolvers : inst[m].alive => inst[m].keys = KeyList(TermToCuisAsset)

\* The last call was a best_match that wrote the score 100 into the records
\* of an exact match, after map_diseases had returned a row of an exact
\* match as well.
C21_Witness ==
    /\ call.op = "best_match"
    /\ call.ret # <<>>
    /\ \A i \in 1..Len(call.ret) : call.ret[i].score = IntScore(100)
    /\ md_calls = 1
    /\ md_err = "none"
    /\ \E r \in 1..Len(md_ret) : md_ret[r].score = <<"1", "0", "0">>

-----------------------------------------------------------------------------
(* The fuzzy caches of two objects (checked under SpecTwo)                 *)

\* The result of a search for the normalized term norm on the object m with
\* the given limit and threshold.
FreshResult(m, norm, limit, threshold) ==
    FuzzyResults(Self(m), extract(norm, inst[m].keys, limit), threshold)

\* C22: a call on one object leaves the fuzzy cache of every other object
\* as it was, and the result of a fuzzy_match call on an object depends on
\* the calls made on that object alone: when the object itself has searched
\* for the normalized term before, the call returns what the object returned
\* then, and otherwise it searches and returns the result for its own limit
\* and threshold, whatever has been called on the other object.
C22_CachesArePrivate ==
    [][/\ \A m \in Resolvers :
             m # call'.m => inst'[m].fuzzy_cache = inst[m].fuzzy_cache
       /\ call'.op = "fuzzy_match" =>
             LET m    == call'.m
                 norm == Normalized(call'.term)
             IN  IF norm \in DOMAIN searches[m]
                 THEN /\ ~call'.searched
                      /\ <<norm, call'.ret>> \in returned[m]
                 ELSE /\ call'.searched
                      /\ call'.ret = FreshResult(m, norm, call'.limit, call'.threshold)
                      /\ inst'[m].fuzzy_cache[norm] = call'.ret]_vars

\* Object A holds records for "canser", and a fuzzy_match of a term with
\* that normalized form on object B, with a higher threshold, has searched
\* and returned no record.
C22_Witness ==
    /\ Normalized(T_canser) \in DOMAIN inst["A"].fuzzy_cache
    /\ inst["A"].fuzzy_cache[Normalized(T_canser)] # <<>>
    /\ call.op = "fuzzy_match"
    /\ call.m = "B"
    /\ Normalized(call.term) = Normalized(T_canser)
    /\ call.searched
    /\ call.ret = <<>>
    /\ inst["B"].fuzzy_cache[Normalized(T_canser)] = <<>>

-----------------------------------------------------------------------------
(* The cache of the matcher of one map_diseases run (checked under SpecMap) *)

\* The matcher that map_diseases made, before its first call.
RunMatcher ==
    [term_to_cuis |-> lru.term_to_cuis.value, cui_to_icd |-> lru.cui_to_icd.value,
     keys |-> KeyList(lru.term_to_cuis.value), fuzzy_cache |-> EmptyCache]

\* The DISEASE texts that the two tagger calls of the run returned.
RunTexts == Range(DiseaseTexts(em_raw.ents)) \cup Range(DiseaseTexts(em_norm.ents))

\* C23: in a map_diseases run that returned, the mentions handed to
\* best_match have pairwise distinct normalized forms, every fuzzy_match
\* call of the run searched (none was answered from the cache), and the
\* records of every fuzzy_match call are those of a search with the limit
\* and the threshold of the run.
C23_RunNeverHitsCache ==
    (md_calls = 1 /\ md_err = "none") =>
        /\ \A i, j \in 1..Len(md_log) :
              i # j => Normalized(md_log[i].term) # Normalized(md_log[j].term)
        /\ \A i \in 1..Len(md_log) :
              md_log[i].fuzzy =>
                  /\ md_log[i].searched
                  /\ md_log[i].ret =
                        FuzzyResults(RunMatcher,
                                     extract(Normalized(md_log[i].term), RunMatcher.keys,
                                             md_limit),
                                     md_threshold)

\* A run over a document whose tagger calls returned two texts of the same
\* normalized form made two fuzzy_match calls, one of them with records.
C23_Witness ==
    /\ md_calls = 1
    /\ md_err = "none"
    /\ \E a, b \in RunTexts : a # b /\ Normalized(a) = Normalized(b)
    /\ \E i, j \in 1..Len(md_log) :
          /\ i # j
          /\ md_log[i].fuzzy /\ md_log[i].searched /\ md_log[i].ret # <<>>
          /\ md_log[j].fuzzy /\ md_log[j].searched

-----------------------------------------------------------------------------
(* The external programs of extract_all_pdf_text (checked under SpecText)  *)

\* The programs in the order of the calls in extract_all_pdf_text.
ProgramOrder == <<"pdftotext", "pdfimages", "ocrmypdf">>

\* Whether the k-th program, once run, ended without an exception of its step.
StepSucceeded(k) ==
    IF k = 1 THEN ap_pdf.kind = "ok"
    ELSE IF k = 2 THEN ap_img.kind = "ok" /\ ~get_image_page_numbers(ap_img.text).raised
    ELSE ocr_run.kind = "ok"

\* C24: the programs run so far are pdftotext, pdfimages, ocrmypdf in this
\* order, each after the ones before it succeeded; ocrmypdf has run only
\* with a detected image page; and once a program that was run has failed or
\* timed out, the call has raised, no program has run after it and no text
\* has been returned.
C24_StepsInOrderAndFailuresStop ==
    /\ Len(ap_steps) <= 3
    /\ \A k \in 1..Len(ap_steps) :
          /\ ap_steps[k] = ProgramOrder[k]
          /\ \A j \in 1..(k - 1) : StepSucceeded(j)
    /\ Len(ap_steps) = 3 => ap_pages # <<>>
    /\ (ap_pc = "returned" /\ ap_pages = <<>>) => Len(ap_steps) = 2
    /\ \A k \in 1..Len(ap_steps) :
          ~StepSucceeded(k) =>
              /\ Len(ap_steps) = k
              /\ ap_pc = "raised"
              /\ ap_exc # "none"
              /\ ap_ret = NoValue
    /\ ap_exc # "none" => (ap_pc = "raised" /\ ap_ret = NoValue)
    /\ ap_ret # NoValue => (ap_pc = "returned" /\ ap_exc = "none")

\* All three programs have run and ocrmypdf timed out: the call has raised
\* and returned no text.
C24_Witness ==
    /\ ap_steps = ProgramOrder
    /\ ocr_run.kind = "timeout"
    /\ ap_pages = <<1, 2>>
    /\ ap_pc = "raised"
    /\ ap_exc = "RuntimeError"
    /\ ap_ret = NoValue

=============================================================================
